---- MODULE Spec2Model ----
(***************************************************************************)
(* Scene-to-video rendering pipeline of the backend: VideoService          *)
(* (createVideo, createSegment, concatenateSegments, cleanupSegments) and  *)
(* the script builders of AIService that produce its input.                *)
(*                                                                         *)
(* createVideo is an async function of a singleton service: between two    *)
(* awaits its code runs without interruption, so every action below is one *)
(* such synchronous stretch, ended by the await it stops at.  The external *)
(* ffmpeg processes and the file-system calls complete in any interleaving *)
(* with the other runs.                                                    *)
(*                                                                         *)
(* The request handlers of server.js that call createVideo are followed    *)
(* from their script to their response: generateSceneImages,               *)
(* generateAudioForScenes with the provider fallback of generateSpeech,    *)
(* createVideo, the database save, and the cleanup of the asset files.     *)
(* The steps before the script (researchTopic or analyzeContent, then      *)
(* createScript or createScriptFromContent) and the stream endpoint have   *)
(* specifications of their own.                                            *)
(***************************************************************************)
EXTENDS Integers, Sequences, FiniteSets, TLC

\* ------------------------------------------------------------------ bounds
MaxScenes == 3
MaxConcScenes == 2
MaxKeyPoints == 7

\* the createVideo calls that are followed: two requests to the one server
Runs == {1, 2}

\* --------------------------------------------------------------- constants
NoPath == 0
SimTotalDuration == 30 + (45 * 5) + 30
SimKeyPointLimit == 5
ContentSceneLimit == 6
DefaultDuration == 30

\* the Error objects createVideo rejects with: the catch block rethrows what
\* it caught, and none of them has a field besides the message (and stack)
NoValidSegments == [message |-> "No valid segments created"]
EncodeFailure == [message |-> "ffmpeg encode error"]
ConcatFailure == [message |-> "ffmpeg concat error"]
StatFailure == [message |-> "ENOENT"]
NoError == [message |-> "none"]

NoFile == [kind |-> "none"]
NoResult == [videoId |-> 0, size |-> 0, duration |-> 0]
NoScript == [scenes |-> <<>>, totalDuration |-> 0]
NoId == <<"none", 0>>
NoDocument == [id |-> NoId]
NoRange == [given |-> FALSE, start |-> 0, hasEnd |-> FALSE, end |-> 0]
NoStream == [videoId |-> NoId, range |-> NoRange, status |-> 0, start |-> 0,
             end |-> 0, length |-> 0]
NoKeyPoints == [isArray |-> TRUE, n |-> 0]
NoContent == [isString |-> TRUE, sentences |-> 0]
AiIdle == [pc |-> "idle", route |-> "none", content |-> NoContent,
           keyPoints |-> NoKeyPoints, script |-> NoScript, simulated |-> FALSE]
NoResponse == [status |-> 0, videoUrl |-> NoId, videoId |-> NoId]

VARIABLES
  pc,          \* position of each createVideo call
  script,      \* its script argument
  images,      \* its images argument
  audioFiles,  \* its audioFiles argument
  audioOnDisk, \* the audio paths whose file exists
  audioEmpty,  \* those of them whose file has no content
  audioLength, \* playing time in seconds of the audio files that exist
  imageOnDisk, \* the image paths whose file exists
  caller,      \* who called concatenateSegments: createVideo, or directly
  videoId,     \* const videoId = uuidv4()
  i,           \* loop variable of the scene loop (0-based)
  segments,    \* const segments = []
  cleaned,     \* number of segments cleanupSegments has gone through
  stats,       \* size obtained by fs.stat(outputPath)
  result,      \* the object createVideo resolves with
  error,       \* the error createVideo rejects with
  skipped,     \* scene positions for which the skip warning was logged
  attempted,   \* scene positions for which createSegment was called
  concatArgs,  \* the segment lists concatenateSegments was called with
  tempFiles,   \* files under tempDir (segments and concat_list.txt)
  outputFiles, \* files under outputDir, by video id
  uuidCount,   \* number of identifiers uuidv4 has handed out
  apiKey,      \* whether ELEVENLABS_API_KEY is configured
  hpc,         \* position of each request handler
  hscript,     \* const script of the handler
  himages,     \* the images list, as far as generateSceneImages has built it
  haudio,      \* the audioFiles list, as far as generateAudioForScenes has built it
  tried,       \* providers the running generateSpeech call has tried, with outcome
  consumed,    \* what createVideo has read for each scene it has encoded
  hcleaned,    \* number of records the running cleanup loop has gone through
  assetFiles,  \* files under temp/images and temp/audio: who wrote the content
  hvideo,      \* videoResult.videoId of each handler
  savedVideo,  \* let savedVideo = null; savedVideo = await video.save()
  response,    \* what each handler has sent with res.json / res.status(500).json
  streamed,    \* the stream endpoint's last request and its answer
  genAI,       \* whether aiService has its Gemini client (this.genAI)
  ai           \* the research and script steps of a handler

inputVars == <<script, images, audioFiles, audioOnDisk, audioEmpty, audioLength,
               imageOnDisk, caller>>
localVars == <<videoId, i, segments, cleaned, stats, result, error>>
logVars == <<skipped, attempted, concatArgs>>
fsVars == <<tempFiles, outputFiles>>
responseVars == <<hvideo, savedVideo, response>>
aiVars == <<genAI, ai>>
handlerVars == <<apiKey, hpc, hscript, himages, haudio, tried, consumed, hcleaned,
                 assetFiles, responseVars, streamed, aiVars>>
runVars == <<pc, inputVars, localVars, logVars, fsVars, uuidCount>>
vars == <<runVars, handlerVars>>

\* ------------------------------------------------------------ pure helpers
Min(a, b) == IF a < b THEN a ELSE b

RECURSIVE SumDurations(_)
SumDurations(scenes) ==
  IF scenes = <<>> THEN 0
  ELSE scenes[1].duration + SumDurations(Tail(scenes))

\* scene.duration || 30
DurationOrDefault(scene) ==
  IF scene.duration = 0 THEN DefaultDuration ELSE scene.duration

RECURSIVE ReduceTotalDuration(_)
ReduceTotalDuration(scenes) ==
  IF scenes = <<>> THEN 0
  ELSE DurationOrDefault(scenes[1]) + ReduceTotalDuration(Tail(scenes))

\* ---------------------------------------------------------- script builders
\* createScript / createScriptFromContent on the Gemini path: the scenes are
\* the model's answer, totalDuration is computed from them
createScript(geminiScenes) ==
  [scenes |-> geminiScenes, totalDuration |-> ReduceTotalDuration(geminiScenes)]

\* simulateScript with the summary scene numbered 6, as the sixth scene
simulateScriptSixth(nKeyPoints) ==
  [scenes |->
     <<[id |-> 1, duration |-> 30]>>
     \o [idx \in 1..Min(nKeyPoints, SimKeyPointLimit) |->
           [id |-> idx + 1, duration |-> 45]]
     \o <<[id |-> 6, duration |-> 30]>>,
   totalDuration |-> SimTotalDuration]

\* simulateScript for research data with nKeyPoints key points
simulateScript(nKeyPoints) ==
  [scenes |->
     <<[id |-> 1, duration |-> 30]>>
     \o [idx \in 1..Min(nKeyPoints, SimKeyPointLimit) |->
           [id |-> idx + 1, duration |-> 45]]
     \o <<[id |-> 7, duration |-> 30]>>,
   totalDuration |-> SimTotalDuration]

\* simulateScriptFromContent for content with nSentences usable sentences
simulateScriptFromContent(nSentences) ==
  [scenes |-> [idx \in 1..Min(nSentences, ContentSceneLimit) |->
                 [id |-> idx, duration |-> 30]],
   totalDuration |-> Min(nSentences, ContentSceneLimit) * 30]

\* ---------------------------------------------------------- asset resolver
\* assets.find(a => a.sceneId === id)?.path
FindPathLast(assets, id) ==
  IF \E k \in 1..Len(assets) : assets[k].sceneId = id
  THEN LET last == CHOOSE k \in 1..Len(assets) :
                     /\ assets[k].sceneId = id
                     /\ \A j \in (k + 1)..Len(assets) : assets[j].sceneId # id
       IN assets[last].path
  ELSE NoPath

FindPath(assets, id) ==
  IF \E k \in 1..Len(assets) : assets[k].sceneId = id
  THEN LET first == CHOOSE k \in 1..Len(assets) :
                      /\ assets[k].sceneId = id
                      /\ \A j \in 1..(k - 1) : assets[j].sceneId # id
       IN assets[first].path
  ELSE NoPath

\* HasImage with the test on the path left out (if (!image) instead of
\* if (!image?.path))
HasImageRecord(scr, imgs, j) ==
  \E k \in 1..Len(imgs) : imgs[k].sceneId = scr.scenes[j + 1].id

\* !image?.path is false for the scene at 0-based position j
HasImage(scr, imgs, j) == FindPath(imgs, scr.scenes[j + 1].id) # NoPath

\* AudioPathArg with the record taken by position (audioFiles[i]) instead of
\* by scene id
AudioByPosition(auds, scr, j) ==
  IF j + 1 <= Len(auds) THEN auds[j + 1].path ELSE NoPath

\* audio?.path, the audioPath argument createVideo passes to createSegment
\* for the scene at 0-based position j
AudioPathArg(auds, scr, j) == FindPath(auds, scr.scenes[j + 1].id)

\* audioPath && fsSync.existsSync(audioPath) in createSegment
UsesAudio(audioPath, onDisk) == audioPath # NoPath /\ audioPath \in onDisk

\* ------------------------------------------------------------------- paths
SegmentPath(index) == <<"segment", index>>
ConcatFilePath == <<"concat_list", 0>>
TempPaths == {SegmentPath(k) : k \in 0..(MaxScenes - 1)} \cup {ConcatFilePath}
VideoIds == 1..Cardinality(Runs)

\* ------------------------------------------------------------ file contents
\* what ffmpeg writes for the scene at position index: -t scene.duration,
\* with an audio stream on the first branch of createSegment, -an otherwise
\* the playing time of the narration file among the audio files, 0 for none
NarrationLength(narration, lengths) ==
  IF narration \in DOMAIN lengths THEN lengths[narration] ELSE 0

\* SegmentLength without '-shortest': the output lasts as long as its longest
\* input
SegmentLengthLongest(duration, narration, audioLen) ==
  IF narration # NoPath /\ audioLen > duration THEN audioLen ELSE duration

\* how long the encoded segment plays: the looped image is an input of
\* '-t scene.duration' seconds; with an audio input '-shortest' ends the
\* output with the shorter of the two, with '-an' the image alone decides
SegmentLength(duration, narration, audioLen) ==
  IF narration # NoPath THEN Min(duration, audioLen) ELSE duration

SegmentFile(r, index, scene, imagePath, narration, audioLen, isComplete) ==
  [kind |-> "segment", run |-> r, index |-> index, duration |-> scene.duration,
   image |-> imagePath, narration |-> narration, audio |-> narration # NoPath,
   length |-> SegmentLength(scene.duration, narration, audioLen),
   complete |-> isComplete]

\* the audio input createSegment gives ffmpeg for audioPath: the path on the
\* first branch, none on the else branch
Narration(audioPath, onDisk) ==
  IF UsesAudio(audioPath, onDisk) THEN audioPath ELSE NoPath

\* concatContent: one "file '<seg>'" line per segment
ManifestFile(r, segs) == [kind |-> "manifest", run |-> r, list |-> segs]

\* what the concat demuxer copies into the output: the files the list names
OutputFile(r, parts, isComplete) ==
  [kind |-> "video", run |-> r, parts |-> parts, complete |-> isComplete]

\* ---------------------------------------------------------------- createVideo
\* first position >= from whose scene has an image path, else scenes.length
NextImageScene(scr, imgs, from) ==
  LET n == Len(scr.scenes)
      withImage == {j \in from..(n - 1) : HasImage(scr, imgs, j)}
  IN IF withImage = {} THEN n
     ELSE CHOOSE j \in withImage : \A k \in withImage : j <= k

\* PushSegment with unshift in place of push
PushSegmentFront(segs, segmentPath) == <<segmentPath>> \o segs

\* segments.push(segmentPath)
PushSegment(segs, segmentPath) == Append(segs, segmentPath)

\* NoSegments with the comparison turned into one that never holds
NoSegmentsNever(segs) == Len(segs) < 0

\* segments.length === 0
NoSegments(segs) == Len(segs) = 0

\* duration: script.totalDuration in the returned object
ArtifactDuration(scr, segs) == scr.totalDuration

\* The scene loop from position from on, up to its next await: scenes without
\* an image are skipped with a warning; at the first scene with an image
\* createSegment spawns ffmpeg on segment_<i>.mp4 and the loop waits for it;
\* past the last scene either the run throws (no segment) or
\* concatenateSegments starts and waits for fs.writeFile of the list.
ScenesLoop(r, scr, imgs, auds, disk, lens, from, segs, tf) ==
  LET n == Len(scr.scenes)
      j == NextImageScene(scr, imgs, from)
  IN /\ skipped' = [skipped EXCEPT ![r] = @ \cup (from..(j - 1))]
     /\ segments' = [segments EXCEPT ![r] = segs]
     /\ IF j < n
        THEN LET scene == scr.scenes[j + 1]
                 audioPath == AudioPathArg(auds, scr, j)
             IN /\ pc' = [pc EXCEPT ![r] = "encoding"]
                /\ i' = [i EXCEPT ![r] = j]
                /\ attempted' = [attempted EXCEPT ![r] = Append(@, j)]
                /\ tempFiles' =
                     [tf EXCEPT ![SegmentPath(j)] =
                        SegmentFile(r, j, scene, FindPath(imgs, scene.id),
                                    Narration(audioPath, disk),
                                    NarrationLength(Narration(audioPath, disk), lens),
                                    FALSE)]
                /\ UNCHANGED <<error, concatArgs>>
        ELSE /\ i' = [i EXCEPT ![r] = n]
             /\ tempFiles' = tf
             /\ UNCHANGED attempted
             /\ IF NoSegments(segs)
                THEN /\ pc' = [pc EXCEPT ![r] = "failed"]
                     /\ error' = [error EXCEPT ![r] = NoValidSegments]
                     /\ UNCHANGED concatArgs
                ELSE /\ pc' = [pc EXCEPT ![r] = "writingManifest"]
                     /\ concatArgs' = [concatArgs EXCEPT ![r] = Append(@, segs)]
                     /\ UNCHANGED error

\* uuidv4 replaced by a generator that repeats itself (a fixed or
\* clock-derived name)
uuidRepeated(count) == 1

\* uuidv4(): an identifier that was not handed out before
uuidv4(count) == count + 1

\* createVideo(script, images, audioFiles) is called
createVideo(r, input) ==
  /\ pc[r] = "idle"
  /\ script' = [script EXCEPT ![r] = input.script]
  /\ images' = [images EXCEPT ![r] = input.images]
  /\ audioFiles' = [audioFiles EXCEPT ![r] = input.audioFiles]
  /\ audioOnDisk' = [audioOnDisk EXCEPT ![r] = input.audioOnDisk]
  /\ audioEmpty' = [audioEmpty EXCEPT ![r] = input.audioEmpty]
  /\ audioLength' = [audioLength EXCEPT ![r] = input.audioLength]
  /\ imageOnDisk' = [imageOnDisk EXCEPT ![r] = input.imageOnDisk]
  /\ caller' = [caller EXCEPT ![r] = "createVideo"]
  /\ uuidCount' = uuidCount + 1
  /\ videoId' = [videoId EXCEPT ![r] = uuidv4(uuidCount)]
  /\ ScenesLoop(r, input.script, input.images, input.audioFiles,
                input.audioOnDisk, input.audioLength, 0, <<>>, tempFiles)
  /\ UNCHANGED <<handlerVars, cleaned, stats, result, outputFiles>>

\* ffmpeg 'end' of createSegment: the promise resolves with segmentPath, the
\* path is pushed and the loop goes on.  A file that another run has opened
\* since is left with either content.  ffmpeg cannot read an audio input
\* without content, so with one it never ends well.
EncodeEnd(r) ==
  /\ pc[r] = "encoding"
  /\ LET p == SegmentPath(i[r])
         scene == script[r].scenes[i[r] + 1]
         narration == Narration(AudioPathArg(audioFiles[r], script[r], i[r]),
                                audioOnDisk[r])
         mine == SegmentFile(r, i[r], scene, FindPath(images[r], scene.id),
                             narration, NarrationLength(narration, audioLength[r]),
                             TRUE)
     IN /\ narration \notin audioEmpty[r]
        /\ \E content \in (IF tempFiles[p].kind = "segment" /\ tempFiles[p].run = r
                        THEN {mine} ELSE {mine, tempFiles[p]}) :
             ScenesLoop(r, script[r], images[r], audioFiles[r], audioOnDisk[r],
                        audioLength[r], i[r] + 1, PushSegment(segments[r], p),
                        [tempFiles EXCEPT ![p] = content])
  /\ UNCHANGED <<handlerVars, inputVars, videoId, cleaned, stats, result,
                 outputFiles, uuidCount>>

\* ffmpeg 'error' of createSegment: the promise rejects, the scene loop is
\* left through the catch block, which rethrows.  The partial file may stay.
EncodeError(r) ==
  /\ pc[r] = "encoding"
  /\ pc' = [pc EXCEPT ![r] = "failed"]
  /\ error' = [error EXCEPT ![r] = EncodeFailure]
  /\ \E stays \in BOOLEAN :
       tempFiles' = IF stays THEN tempFiles
                    ELSE [tempFiles EXCEPT ![SegmentPath(i[r])] = NoFile]
  /\ UNCHANGED <<handlerVars, inputVars, videoId, i, segments, cleaned, stats,
                 result, logVars, outputFiles, uuidCount>>

\* ---------------------------------------------------------- concatenateSegments
\* concatenateSegments(segs, outputPath) called from outside createVideo, with
\* outputPath = outputDir/<v>.mp4: up to its await of fs.writeFile
concatenateSegments(r, segs, v) ==
  /\ pc[r] = "idle"
  /\ caller' = [caller EXCEPT ![r] = "direct"]
  /\ segments' = [segments EXCEPT ![r] = segs]
  /\ videoId' = [videoId EXCEPT ![r] = v]
  /\ concatArgs' = [concatArgs EXCEPT ![r] = Append(@, segs)]
  /\ pc' = [pc EXCEPT ![r] = "writingManifest"]
  /\ UNCHANGED <<handlerVars, script, images, audioFiles, audioOnDisk,
                 audioEmpty, audioLength, imageOnDisk, i, cleaned, stats,
                 result, error, skipped, attempted, fsVars, uuidCount>>

\* fs.writeFile(concatFilePath, concatContent) completes, ffmpeg is spawned
ManifestWritten(r) ==
  /\ pc[r] = "writingManifest"
  /\ tempFiles' = [tempFiles EXCEPT ![ConcatFilePath] = ManifestFile(r, segments[r])]
  /\ pc' = [pc EXCEPT ![r] = "concatenating"]
  /\ UNCHANGED <<handlerVars, inputVars, localVars, logVars, outputFiles,
                 uuidCount>>

\* the files a manifest names, in its order
PartsOf(manifest, tf) == [k \in 1..Len(manifest.list) |-> tf[manifest.list[k]]]

\* ffmpeg 'end' of the concat run: it has read the list that is in
\* concat_list.txt and stream-copied the files it names to outputPath; the
\* handler then waits for fs.unlink(concatFilePath).  A list that names no
\* file or a file that is not there makes ffmpeg fail instead.
ConcatEnd(r) ==
  /\ pc[r] = "concatenating"
  /\ tempFiles[ConcatFilePath].kind = "manifest"
  /\ tempFiles[ConcatFilePath].list # <<>>
  /\ LET parts == PartsOf(tempFiles[ConcatFilePath], tempFiles)
     IN /\ \A k \in 1..Len(parts) : parts[k].kind = "segment"
        /\ outputFiles' = [outputFiles EXCEPT ![videoId[r]] = OutputFile(r, parts, TRUE)]
  /\ pc' = [pc EXCEPT ![r] = "unlinkingManifest"]
  /\ UNCHANGED <<handlerVars, inputVars, localVars, logVars, tempFiles,
                 uuidCount>>

\* ConcatError with the rejection swallowed: createVideo goes on to fs.stat
ConcatErrorAbsorbed(r) ==
  /\ pc[r] = "concatenating"
  /\ pc' = [pc EXCEPT ![r] = "stat"]
  /\ UNCHANGED <<handlerVars, inputVars, localVars, logVars, fsVars, uuidCount>>

\* ConcatError with the concatenation started again instead of rejecting
ConcatErrorRetry(r) ==
  /\ pc[r] = "concatenating"
  /\ pc' = [pc EXCEPT ![r] = "writingManifest"]
  /\ concatArgs' = [concatArgs EXCEPT ![r] = Append(@, segments[r])]
  /\ UNCHANGED <<handlerVars, inputVars, localVars, skipped, attempted, fsVars,
                 uuidCount>>

\* ffmpeg 'error' of the concat run: reject(err); createVideo rethrows, a
\* direct caller gets the rejection
ConcatError(r) ==
  /\ pc[r] = "concatenating"
  /\ pc' = [pc EXCEPT ![r] = IF caller[r] = "createVideo" THEN "failed" ELSE "rejected"]
  /\ error' = [error EXCEPT ![r] = ConcatFailure]
  /\ \E stays \in BOOLEAN :
       outputFiles' = IF stays
                      THEN [outputFiles EXCEPT ![videoId[r]] = OutputFile(r, <<>>, FALSE)]
                      ELSE outputFiles
  /\ UNCHANGED <<handlerVars, inputVars, videoId, i, segments, cleaned, stats,
                 result, logVars, tempFiles, uuidCount>>

\* fs.unlink(concatFilePath).catch(() => {}) settles, resolve(); createVideo
\* goes on to fs.stat(outputPath), a direct caller gets the resolution
ManifestUnlinked(r) ==
  /\ pc[r] = "unlinkingManifest"
  /\ tempFiles' = [tempFiles EXCEPT ![ConcatFilePath] = NoFile]
  /\ pc' = [pc EXCEPT ![r] = IF caller[r] = "createVideo" THEN "stat" ELSE "resolved"]
  /\ UNCHANGED <<handlerVars, inputVars, localVars, logVars, outputFiles,
                 uuidCount>>

\* stats.size of an output file: abstracted to the number of parts copied
FileSize(file) == IF file.kind = "video" THEN Len(file.parts) ELSE 0

\* fs.stat(outputPath) settles; on success cleanupSegments(segments) starts
StatDone(r) ==
  /\ pc[r] = "stat"
  /\ IF outputFiles[videoId[r]].kind = "video"
     THEN /\ stats' = [stats EXCEPT ![r] = FileSize(outputFiles[videoId[r]])]
          /\ cleaned' = [cleaned EXCEPT ![r] = 0]
          /\ pc' = [pc EXCEPT ![r] = "cleanup"]
          /\ UNCHANGED error
     ELSE /\ pc' = [pc EXCEPT ![r] = "failed"]
          /\ error' = [error EXCEPT ![r] = StatFailure]
          /\ UNCHANGED <<stats, cleaned>>
  /\ UNCHANGED <<handlerVars, inputVars, videoId, i, segments, result, logVars,
                 fsVars, uuidCount>>

\* ------------------------------------------------------------- cleanupSegments
\* CleanupTarget with the image of the k-th scene in place of the segment
CleanupTargetImage(r, k) ==
  <<"image", FindPath(images[r], script[r].scenes[k].id)>>

\* the path the k-th round of the cleanup loop unlinks: segments[k - 1]
CleanupTarget(r, k) == segments[r][k]

\* the temp directory after fs.unlink(path) has removed the file
Unlinked(files, path) ==
  IF path \in DOMAIN files THEN [files EXCEPT ![path] = NoFile] ELSE files

\* CleanupUnlink without the try/catch around fs.unlink: a failed unlink
\* rejects cleanupSegments and with it createVideo
CleanupUnlinkThrows(r) ==
  /\ pc[r] = "cleanup"
  /\ cleaned[r] < Len(segments[r])
  /\ \E ok \in BOOLEAN :
       LET target == CleanupTarget(r, cleaned[r] + 1)
       IN IF ok
          THEN /\ tempFiles' = Unlinked(tempFiles, target)
               /\ imageOnDisk' = [imageOnDisk EXCEPT ![r] =
                                    IF target[1] = "image" THEN @ \ {target[2]} ELSE @]
               /\ cleaned' = [cleaned EXCEPT ![r] = @ + 1]
               /\ IF cleaned[r] + 1 = Len(segments[r])
                  THEN /\ pc' = [pc EXCEPT ![r] = "done"]
                       /\ result' = [result EXCEPT ![r] =
                                       [videoId |-> videoId[r], size |-> stats[r],
                                        duration |-> ArtifactDuration(script[r], segments[r])]]
                  ELSE UNCHANGED <<pc, result>>
               /\ UNCHANGED error
          ELSE /\ pc' = [pc EXCEPT ![r] = "failed"]
               /\ error' = [error EXCEPT ![r] = [message |-> "EPERM"]]
               /\ UNCHANGED <<tempFiles, imageOnDisk, cleaned, result>>
  /\ UNCHANGED <<handlerVars, script, images, audioFiles, audioOnDisk,
                 audioEmpty, audioLength, caller, videoId, i, segments, stats,
                 logVars, outputFiles, uuidCount>>

\* one round of the cleanup loop: fs.unlink(segment) settles, having removed
\* the file or not (the catch block ignores the error); after the last round
\* createVideo returns the result object
CleanupUnlink(r) ==
  /\ pc[r] = "cleanup"
  /\ cleaned[r] < Len(segments[r])
  /\ \E ok \in BOOLEAN :
       LET target == CleanupTarget(r, cleaned[r] + 1)
       IN IF ok
          THEN /\ tempFiles' = Unlinked(tempFiles, target)
               /\ imageOnDisk' = [imageOnDisk EXCEPT ![r] =
                                    IF target[1] = "image" THEN @ \ {target[2]} ELSE @]
          ELSE UNCHANGED <<tempFiles, imageOnDisk>>
  /\ cleaned' = [cleaned EXCEPT ![r] = @ + 1]
  /\ IF cleaned[r] + 1 = Len(segments[r])
     THEN /\ pc' = [pc EXCEPT ![r] = "done"]
          /\ result' = [result EXCEPT ![r] =
                          [videoId |-> videoId[r], size |-> stats[r],
                           duration |-> ArtifactDuration(script[r], segments[r])]]
     ELSE UNCHANGED <<pc, result>>
  /\ UNCHANGED <<handlerVars, script, images, audioFiles, audioOnDisk,
                 audioEmpty, audioLength, caller, videoId, i, segments, stats,
                 error, logVars, outputFiles, uuidCount>>

\* --------------------------------------------------------------------- inputs
RECURSIVE SeqsUpTo(_, _)
SeqsUpTo(S, n) ==
  IF n = 0 THEN {<<>>}
  ELSE LET shorter == SeqsUpTo(S, n - 1)
       IN shorter \cup {Append(q, x) : q \in {t \in shorter : Len(t) = n - 1}, x \in S}

\* answers of the model: scenes numbered by position, 30 or 45 seconds each
GeminiScenes ==
  {q \in SeqsUpTo({[id |-> k, duration |-> d] : k \in 1..MaxScenes, d \in {30, 45}},
                  MaxScenes) :
     \A k \in 1..Len(q) : q[k].id = k}

Scripts ==
  {createScript(q) : q \in GeminiScenes}
  \cup {simulateScript(n) : n \in 0..(MaxScenes - 2)}
  \cup {simulateScriptFromContent(n) : n \in 0..MaxScenes}

\* image lists: per scene no record, a record without path, or a record with
\* the path of the scene's image file
RECURSIVE ImageLists(_, _)
ImageLists(scenes, k) ==
  IF k > Len(scenes) THEN {<<>>}
  ELSE LET rest == ImageLists(scenes, k + 1)
           id == scenes[k].id
       IN rest
          \cup {<<[sceneId |-> id, path |-> NoPath]>> \o t : t \in rest}
          \cup {<<[sceneId |-> id, path |-> k]>> \o t : t \in rest}

\* audio lists as generateAudioForScenes returns them: one record per scene,
\* with the path of the scene's audio file or with path null and silent true
RECURSIVE AudioLists(_, _)
AudioLists(scenes, k) ==
  IF k > Len(scenes) THEN {<<>>}
  ELSE LET rest == AudioLists(scenes, k + 1)
           id == scenes[k].id
       IN {<<[sceneId |-> id, path |-> NoPath, silent |-> TRUE]>> \o t : t \in rest}
          \cup {<<[sceneId |-> id, path |-> k, silent |-> FALSE]>> \o t : t \in rest}

PathsIn(assets) == {assets[k].path : k \in 1..Len(assets)} \ {NoPath}

\* narration files that all play for 20 seconds, less than any scene lasts
UsualLengths(paths) == [p \in paths |-> 20]

InputsFor(scripts) ==
  UNION {{[script |-> s, images |-> im, audioFiles |-> au,
           audioOnDisk |-> PathsIn(au), audioEmpty |-> {},
           audioLength |-> UsualLengths(PathsIn(au)),
           imageOnDisk |-> PathsIn(im)] :
            im \in ImageLists(s.scenes, 1), au \in AudioLists(s.scenes, 1)} :
         s \in scripts}

\* the image list generateSceneImages returns: one record with a path per scene
FullImages(scenes) ==
  [k \in 1..Len(scenes) |-> [sceneId |-> scenes[k].id, path |-> k]]

\* audio lists with the state of their files: per scene no record, a record
\* with path null (marked silent or not), or a record with a path whose file
\* is there, is there without content, or is not there
RECURSIVE AudioCases(_, _)
AudioCases(scenes, k) ==
  IF k > Len(scenes) THEN {[list |-> <<>>, onDisk |-> {}, empty |-> {}]}
  ELSE LET rest == AudioCases(scenes, k + 1)
           id == scenes[k].id
           null(flag) == [sceneId |-> id, path |-> NoPath, silent |-> flag]
           voiced == [sceneId |-> id, path |-> k, silent |-> FALSE]
       IN rest
          \cup {[t EXCEPT !.list = <<null(b)>> \o @] : t \in rest, b \in BOOLEAN}
          \cup {[t EXCEPT !.list = <<voiced>> \o @] : t \in rest}
          \cup {[t EXCEPT !.list = <<voiced>> \o @, !.onDisk = @ \cup {k}] : t \in rest}
          \cup {[t EXCEPT !.list = <<voiced>> \o @, !.onDisk = @ \cup {k},
                           !.empty = @ \cup {k}] : t \in rest}

\* calls with every scene's image and any state of the audio assets
AudioInputs ==
  UNION {{[script |-> s, images |-> FullImages(s.scenes), audioFiles |-> a.list,
           audioOnDisk |-> a.onDisk, audioEmpty |-> a.empty,
           audioLength |-> UsualLengths(a.onDisk \ a.empty),
           imageOnDisk |-> PathsIn(FullImages(s.scenes))] :
            a \in AudioCases(s.scenes, 1)} :
         s \in {simulateScriptFromContent(n) : n \in 1..MaxScenes}}

\* asset lists in which a scene id occurs twice: the scene's record followed
\* by a second one with another path, with or without a path in the first
RECURSIVE DuplicateLists(_, _)
DuplicateLists(scenes, k) ==
  IF k > Len(scenes) THEN {<<>>}
  ELSE LET rest == DuplicateLists(scenes, k + 1)
           id == scenes[k].id
           first == [sceneId |-> id, path |-> k, silent |-> FALSE]
           empty == [sceneId |-> id, path |-> NoPath, silent |-> TRUE]
           second == [sceneId |-> id, path |-> k + Len(scenes), silent |-> FALSE]
       IN {<<first>> \o t : t \in rest}
          \cup {<<first, second>> \o t : t \in rest}
          \cup {<<empty, second>> \o t : t \in rest}

\* the image records { sceneId, path } with the ids and paths of a list
ImageRecords(list) ==
  [k \in 1..Len(list) |-> [sceneId |-> list[k].sceneId, path |-> list[k].path]]

\* calls whose asset lists have several records for a scene id
DuplicateInputs ==
  UNION {{[script |-> s, images |-> im, audioFiles |-> au,
           audioOnDisk |-> PathsIn(au), audioEmpty |-> {},
           audioLength |-> UsualLengths(PathsIn(au)),
           imageOnDisk |-> PathsIn(im)] :
            im \in {ImageRecords(d) : d \in DuplicateLists(s.scenes, 1)},
            au \in DuplicateLists(s.scenes, 1)} :
         s \in {simulateScriptFromContent(n) : n \in 1..MaxScenes}}

\* playing times of a narration file: less than, as long as, and more than
\* the 30 seconds of a scene
AudioLengths == {20, 30, 60}

\* the audio list generateAudioForScenes returns when every synthesis worked
FullAudio(scenes) ==
  [k \in 1..Len(scenes) |-> [sceneId |-> scenes[k].id, path |-> k, silent |-> FALSE]]

\* calls with every scene's image and narration, the narration of any length
LengthInputs ==
  UNION {{[script |-> s, images |-> FullImages(s.scenes),
           audioFiles |-> FullAudio(s.scenes),
           audioOnDisk |-> 1..Len(s.scenes), audioEmpty |-> {},
           audioLength |-> lens,
           imageOnDisk |-> PathsIn(FullImages(s.scenes))] :
            lens \in [1..Len(s.scenes) -> AudioLengths]} :
         s \in {simulateScriptFromContent(n) : n \in 1..MaxScenes}}

\* the calls of one request at a time
Inputs == InputsFor(Scripts) \cup AudioInputs \cup DuplicateInputs \cup LengthInputs

\* the audio list of a request whose speech synthesis failed for every scene
SilentAudio(scenes) ==
  [k \in 1..Len(scenes) |-> [sceneId |-> scenes[k].id, path |-> NoPath, silent |-> TRUE]]

\* the calls of two overlapping requests
ConcInputs ==
  UNION {{[script |-> s, images |-> im, audioFiles |-> SilentAudio(s.scenes),
           audioOnDisk |-> {}, audioEmpty |-> {}, audioLength |-> <<>>,
           imageOnDisk |-> PathsIn(im)] : im \in ImageLists(s.scenes, 1)} :
         s \in {simulateScriptFromContent(n) : n \in 1..Min(MaxConcScenes, MaxScenes)}}

\* ------------------------------------------------------------ request handler
\* The handlers of POST /api/generate/topic and /api/generate/content after
\* they have their script: generateSceneImages, generateAudioForScenes,
\* createVideo, the database save, imageService.cleanup, ttsService.cleanup,
\* the response.  One action per await that does something to the lists or
\* the files (the delay(500) waits between them change nothing).  createVideo
\* is seen here by what it reads of the asset files, scene by scene.

\* scene_<id>.png under temp/images, scene_<id>.mp3 under temp/audio
ImagePath(id) == <<"image", id>>
AudioPath(id) == <<"audio", id>>
NoAsset == <<"none", 0>>
AssetPaths == {ImagePath(id) : id \in 1..MaxScenes} \cup {AudioPath(id) : id \in 1..MaxScenes}

\* the identifiers a client is handed: the uuid createVideo drew, or the _id
\* of the saved document (an ObjectId, never of the form of a uuid)
Uuid(n) == <<"uuid", n>>
ObjectId(n) == <<"oid", n>>

\* the file at path.join(__dirname, 'output/videos', `${videoId}.mp4`), as
\* the stream and download endpoints look it up
VideoFileAt(files, id) ==
  IF id[1] = "uuid" /\ id[2] \in DOMAIN files THEN files[id[2]] ELSE NoFile

\* metadata.videoId: savedVideo?._id || videoResult.videoId
ResponseVideoId(saved, pipelineId) ==
  IF saved = NoDocument THEN Uuid(pipelineId) ELSE saved.id

\* res.json({ success: true, data: { videoUrl, ..., metadata: { videoId } } })
SuccessResponse(q) ==
  [status |-> 200, videoUrl |-> Uuid(hvideo[q]),
   videoId |-> ResponseVideoId(savedVideo[q], hvideo[q])]

\* res.status(500).json({ error, message }) of the catch block
FailureResponse == [status |-> 500, videoUrl |-> NoId, videoId |-> NoId]

\* what the handler has sent once it stands at position at
ResponseAt(q, at) ==
  IF at = "responded" THEN SuccessResponse(q)
  ELSE IF at = "failed" THEN FailureResponse
  ELSE response[q]

\* GenerationComplete turned into "the loop ends after its first scene"
GenerationStarted(scr, list) == Len(list) >= Min(1, Len(scr.scenes))

\* for (const scene of script.scenes) has gone through every scene
GenerationComplete(scr, list) == Len(list) = Len(scr.scenes)

\* FirstProvider with the test of this.apiKey left out
FirstProviderGoogle(key) == "google"

\* generateSpeech: if (this.apiKey) ElevenLabs, else Google TTS
FirstProvider(key) == IF key THEN "eleven" ELSE "google"

\* where the handler waits next once the audio list is auds
AfterAudio(key, scr, auds) ==
  IF GenerationComplete(scr, auds) THEN "video" ELSE FirstProvider(key)

\* where the handler waits next once the image list is imgs
AfterImages(key, scr, imgs) ==
  IF GenerationComplete(scr, imgs) THEN AfterAudio(key, scr, <<>>) ELSE "genImage"

\* the record generateSceneImages pushes for a scene
ImageRecord(scene) == [sceneId |-> scene.id, path |-> ImagePath(scene.id)]

\* the record generateAudioForScenes pushes after generateSpeech resolved
VoicedRecord(scene) == [sceneId |-> scene.id, path |-> AudioPath(scene.id), silent |-> FALSE]

\* SilentRecord with the path of the file that was asked for
SilentRecordWithPath(scene) ==
  [sceneId |-> scene.id, path |-> AudioPath(scene.id), silent |-> TRUE]

\* the record generateAudioForScenes pushes in its catch block
SilentRecord(scene) == [sceneId |-> scene.id, path |-> NoAsset, silent |-> TRUE]

\* number of leading records from position from on that cleanup passes over
\* without an unlink: if (audio.path)
RECURSIVE SkipNoPath(_, _)
SkipNoPath(list, from) ==
  IF from < Len(list) /\ list[from + 1].path = NoAsset
  THEN SkipNoPath(list, from + 1) ELSE from

\* the handler has its script: generateSceneImages(script) starts
Request(q, scr) ==
  /\ hpc[q] = "idle"
  /\ hscript' = [hscript EXCEPT ![q] = scr]
  /\ himages' = [himages EXCEPT ![q] = <<>>]
  /\ haudio' = [haudio EXCEPT ![q] = <<>>]
  /\ hpc' = [hpc EXCEPT ![q] = AfterImages(apiKey, scr, <<>>)]
  /\ UNCHANGED <<runVars, aiVars, streamed, responseVars, apiKey, tried,
                 consumed, hcleaned, assetFiles>>

\* generateTemplateImage has written scene_<id>.png (first call or the
\* fallback call of the catch block): the record is pushed
ImageWritten(q) ==
  /\ hpc[q] \in {"genImage", "genFallback"}
  /\ LET scene == hscript[q].scenes[Len(himages[q]) + 1]
         imgs == Append(himages[q], ImageRecord(scene))
     IN /\ assetFiles' = [assetFiles EXCEPT ![ImagePath(scene.id)] = q]
        /\ himages' = [himages EXCEPT ![q] = imgs]
        /\ hpc' = [hpc EXCEPT ![q] = AfterImages(apiKey, hscript[q], imgs)]
  /\ UNCHANGED <<runVars, aiVars, streamed, responseVars, apiKey, hscript,
                 haudio, tried, consumed, hcleaned>>

\* AfterImageFailure without the catch block of generateSceneImages
AfterImageFailureUncaught(at) == "failed"

\* where the handler stands after generateTemplateImage rejected at position at
AfterImageFailure(at) == IF at = "genImage" THEN "genFallback" ELSE "failed"

\* generateTemplateImage rejects: the first time the catch block calls it
\* again, the second time generateSceneImages rejects and the handler answers
\* with status 500
ImageFailed(q) ==
  /\ hpc[q] \in {"genImage", "genFallback"}
  /\ hpc' = [hpc EXCEPT ![q] = AfterImageFailure(hpc[q])]
  /\ response' = [response EXCEPT ![q] = ResponseAt(q, AfterImageFailure(hpc[q]))]
  /\ UNCHANGED <<runVars, aiVars, streamed, hvideo, savedVideo, apiKey, hscript,
                 himages, haudio, tried, consumed, hcleaned, assetFiles>>

\* generateWithElevenLabs: axios.post has answered, fs.writeFile is awaited
ElevenAnswered(q) ==
  /\ hpc[q] = "eleven"
  /\ hpc' = [hpc EXCEPT ![q] = "elevenWrite"]
  /\ UNCHANGED <<runVars, aiVars, streamed, responseVars, apiKey, hscript,
                 himages, haudio, tried, consumed, hcleaned, assetFiles>>

\* generateWithElevenLabs has written scene_<id>.mp3: generateSpeech resolves
\* and the record is pushed
ElevenWritten(q) ==
  /\ hpc[q] = "elevenWrite"
  /\ LET scene == hscript[q].scenes[Len(haudio[q]) + 1]
         auds == Append(haudio[q], VoicedRecord(scene))
     IN /\ assetFiles' = [assetFiles EXCEPT ![AudioPath(scene.id)] = q]
        /\ haudio' = [haudio EXCEPT ![q] = auds]
        /\ hpc' = [hpc EXCEPT ![q] = AfterAudio(apiKey, hscript[q], auds)]
  /\ tried' = [tried EXCEPT ![q] = <<[provider |-> "eleven", ok |-> TRUE]>>]
  /\ UNCHANGED <<runVars, aiVars, streamed, responseVars, apiKey, hscript,
                 himages, consumed, hcleaned>>

\* generateWithElevenLabs rejects (the request or the write): the catch block
\* of generateSpeech calls generateWithGoogleTTS
ElevenFailed(q) ==
  /\ hpc[q] \in {"eleven", "elevenWrite"}
  /\ tried' = [tried EXCEPT ![q] = <<[provider |-> "eleven", ok |-> FALSE]>>]
  /\ hpc' = [hpc EXCEPT ![q] = "googleFallback"]
  /\ UNCHANGED <<runVars, aiVars, streamed, responseVars, apiKey, hscript,
                 himages, haudio, consumed, hcleaned, assetFiles>>

\* the providers tried by the running generateSpeech call once Google TTS
\* has settled with outcome ok
TriedWithGoogle(q, ok) ==
  (IF hpc[q] = "googleFallback" THEN tried[q] ELSE <<>>)
    \o <<[provider |-> "google", ok |-> ok]>>

\* gtts.save has written scene_<id>.mp3: generateSpeech resolves and the
\* record is pushed
GoogleSaved(q) ==
  /\ hpc[q] \in {"google", "googleFallback"}
  /\ LET scene == hscript[q].scenes[Len(haudio[q]) + 1]
         auds == Append(haudio[q], VoicedRecord(scene))
     IN /\ assetFiles' = [assetFiles EXCEPT ![AudioPath(scene.id)] = q]
        /\ haudio' = [haudio EXCEPT ![q] = auds]
        /\ hpc' = [hpc EXCEPT ![q] = AfterAudio(apiKey, hscript[q], auds)]
  /\ tried' = [tried EXCEPT ![q] = TriedWithGoogle(q, TRUE)]
  /\ UNCHANGED <<runVars, aiVars, streamed, responseVars, apiKey, hscript,
                 himages, consumed, hcleaned>>

\* gtts.save reports an error: generateSpeech rejects, the catch block of
\* generateAudioForScenes pushes the silent record and the loop goes on
GoogleFailed(q) ==
  /\ hpc[q] \in {"google", "googleFallback"}
  /\ LET scene == hscript[q].scenes[Len(haudio[q]) + 1]
         auds == Append(haudio[q], SilentRecord(scene))
     IN /\ haudio' = [haudio EXCEPT ![q] = auds]
        /\ hpc' = [hpc EXCEPT ![q] = AfterAudio(apiKey, hscript[q], auds)]
  /\ tried' = [tried EXCEPT ![q] = TriedWithGoogle(q, FALSE)]
  /\ UNCHANGED <<runVars, aiVars, streamed, responseVars, apiKey, hscript,
                 himages, consumed, hcleaned, assetFiles>>

\* what is in the file at path now: the request that wrote it, 0 for no file
\* and for no path
ContentAt(files, path) == IF path = NoAsset THEN 0 ELSE files[path]

\* createVideo encodes its next scene: ffmpeg reads the image file, and the
\* audio file when the record has a path and the file exists; without the
\* image file ffmpeg fails, createVideo rejects and the handler answers 500
VideoEncode(q) ==
  /\ hpc[q] = "video"
  /\ Len(consumed[q]) < Len(hscript[q].scenes)
  /\ LET k == Len(consumed[q]) + 1
         image == ContentAt(assetFiles, himages[q][k].path)
         audio == ContentAt(assetFiles, haudio[q][k].path)
     IN IF image = 0
        THEN /\ hpc' = [hpc EXCEPT ![q] = "failed"]
             /\ response' = [response EXCEPT ![q] = ResponseAt(q, "failed")]
             /\ UNCHANGED consumed
        ELSE /\ consumed' = [consumed EXCEPT ![q] =
                               Append(@, [sceneId |-> hscript[q].scenes[k].id,
                                          image |-> image, audio |-> audio])]
             /\ UNCHANGED <<hpc, response>>
  /\ UNCHANGED <<runVars, aiVars, streamed, hvideo, savedVideo, apiKey, hscript,
                 himages, haudio, tried, hcleaned, assetFiles>>

\* createVideo rejects (no scene, an ffmpeg error, a failed stat): the catch
\* block of the handler answers 500 and nothing is cleaned up
VideoFailed(q) ==
  /\ hpc[q] = "video"
  /\ hpc' = [hpc EXCEPT ![q] = "failed"]
  /\ response' = [response EXCEPT ![q] = ResponseAt(q, "failed")]
  /\ UNCHANGED <<runVars, aiVars, streamed, hvideo, savedVideo, apiKey, hscript,
                 himages, haudio, tried, consumed, hcleaned, assetFiles>>

\* createVideo resolves with the identifier it drew from uuidv4(): the
\* rendered file is at output/videos/<videoId>.mp4, made of what was read for
\* each scene; the handler goes on to the database save
VideoReturned(q) ==
  /\ hpc[q] = "video"
  /\ hscript[q].scenes # <<>>
  /\ Len(consumed[q]) = Len(hscript[q].scenes)
  /\ hvideo' = [hvideo EXCEPT ![q] = uuidv4(uuidCount)]
  /\ uuidCount' = uuidCount + 1
  /\ outputFiles' = [outputFiles EXCEPT ![uuidv4(uuidCount)] =
                                           OutputFile(q, consumed[q], TRUE)]
  /\ hpc' = [hpc EXCEPT ![q] = "saving"]
  /\ UNCHANGED <<pc, inputVars, localVars, logVars, tempFiles, aiVars, streamed,
                 savedVideo, response, apiKey, hscript, himages, haudio, tried,
                 consumed, hcleaned, assetFiles>>

\* how the database save can go: mongoose.connection.readyState is not 1 and
\* nothing is saved, video.save() resolves, or it rejects
SaveOutcomes == {"disconnected", "saved", "rejected"}

\* AfterSave without the try/catch around video.save()
AfterSaveUncaught(outcome) == IF outcome = "rejected" THEN "failed" ELSE "cleanupImages"

\* where the handler goes after the save: the catch block only logs dbError
AfterSave(outcome) == "cleanupImages"

\* the save has gone one of its ways: savedVideo is the document with its
\* _id or stays null, and imageService.cleanup(images) starts
VideoSaved(q) ==
  /\ hpc[q] = "saving"
  /\ \E outcome \in SaveOutcomes :
       /\ savedVideo' = [savedVideo EXCEPT ![q] =
                           IF outcome = "saved" THEN [id |-> ObjectId(q)] ELSE NoDocument]
       /\ hpc' = [hpc EXCEPT ![q] = AfterSave(outcome)]
       /\ response' = [response EXCEPT ![q] = ResponseAt(q, AfterSave(outcome))]
  /\ hcleaned' = [hcleaned EXCEPT ![q] = 0]
  /\ UNCHANGED <<runVars, aiVars, streamed, hvideo, apiKey, hscript, himages,
                 haudio, tried, consumed, assetFiles>>

\* imageService.cleanup: fs.unlink(image.path) settles; after the last image
\* ttsService.cleanup(audioFiles) starts, which passes over the records
\* without a path, and after its last record the handler responds
ImageUnlinked(q) ==
  /\ hpc[q] = "cleanupImages"
  /\ assetFiles' = [assetFiles EXCEPT ![himages[q][hcleaned[q] + 1].path] = 0]
  /\ IF hcleaned[q] + 1 < Len(himages[q])
     THEN /\ hcleaned' = [hcleaned EXCEPT ![q] = @ + 1]
          /\ UNCHANGED hpc
     ELSE LET next == SkipNoPath(haudio[q], 0)
          IN /\ hcleaned' = [hcleaned EXCEPT ![q] = next]
             /\ hpc' = [hpc EXCEPT ![q] = IF next < Len(haudio[q])
                                         THEN "cleanupAudio" ELSE "responded"]
  /\ response' = [response EXCEPT ![q] = ResponseAt(q, hpc'[q])]
  /\ UNCHANGED <<runVars, aiVars, streamed, hvideo, savedVideo, apiKey, hscript,
                 himages, haudio, tried, consumed>>

\* ttsService.cleanup: fs.unlink(audio.path) settles
AudioUnlinked(q) ==
  /\ hpc[q] = "cleanupAudio"
  /\ assetFiles' = [assetFiles EXCEPT ![haudio[q][hcleaned[q] + 1].path] = 0]
  /\ LET next == SkipNoPath(haudio[q], hcleaned[q] + 1)
     IN /\ hcleaned' = [hcleaned EXCEPT ![q] = next]
        /\ hpc' = [hpc EXCEPT ![q] = IF next < Len(haudio[q])
                                    THEN "cleanupAudio" ELSE "responded"]
  /\ response' = [response EXCEPT ![q] = ResponseAt(q, hpc'[q])]
  /\ UNCHANGED <<runVars, aiVars, streamed, hvideo, savedVideo, apiKey, hscript,
                 himages, haudio, tried, consumed>>

\* the scripts of the requests: scenes numbered from 1
RequestScripts(most) == {simulateScriptFromContent(n) : n \in 0..most}

\* ------------------------------------------------------------ stream endpoint
\* GET /api/videos/stream/:videoId.  A Range header "bytes=<start>-<end>" or
\* "bytes=<start>-" is taken apart with replace, split('-') and parseInt; the
\* sizes and positions are counted in the unit of FileSize.

\* the byte positions a client asks for, some of them past the largest file
Offsets == 0..(MaxScenes + 1)

\* req.headers.range: absent, "bytes=<start>-" or "bytes=<start>-<end>"
RangeHeaders ==
  {NoRange}
    \cup {[given |-> TRUE, start |-> a, hasEnd |-> FALSE, end |-> 0] : a \in Offsets}
    \cup {[given |-> TRUE, start |-> a, hasEnd |-> TRUE, end |-> b] :
            a \in Offsets, b \in Offsets}

\* const end = parts[1] ? parseInt(parts[1], 10) : fileSize - 1
RangeEnd(range, fileSize) == IF range.hasEnd THEN range.end ELSE fileSize - 1

\* the answer of the endpoint for the file found at the path (NoFile for
\* none) and the Range header.  fsSync.createReadStream(videoPath, { start,
\* end }) throws when start > end; the error handler of the application then
\* answers with status 500.
StreamAnswer(id, file, range) ==
  IF file = NoFile
  THEN [videoId |-> id, range |-> range, status |-> 404, start |-> 0, end |-> 0,
        length |-> 0]
  ELSE IF range.given
  THEN IF range.start > RangeEnd(range, FileSize(file))
       THEN [videoId |-> id, range |-> range, status |-> 500, start |-> 0,
             end |-> 0, length |-> 0]
       ELSE [videoId |-> id, range |-> range, status |-> 206,
             start |-> range.start, end |-> RangeEnd(range, FileSize(file)),
             length |-> (RangeEnd(range, FileSize(file)) - range.start) + 1]
  ELSE [videoId |-> id, range |-> range, status |-> 200, start |-> 0,
        end |-> FileSize(file) - 1, length |-> FileSize(file)]

\* the identifiers a client may ask for
RequestedIds == {Uuid(v) : v \in VideoIds} \cup {ObjectId(1)}

\* one request to the stream endpoint
StreamVideo ==
  /\ \E id \in RequestedIds, range \in RangeHeaders :
       streamed' = StreamAnswer(id, VideoFileAt(outputFiles, id), range)
  /\ UNCHANGED <<runVars, aiVars, responseVars, apiKey, hpc, hscript, himages,
                 haudio, tried, consumed, hcleaned, assetFiles>>

\* a video createVideo has rendered from n scenes
RenderedVideo(n) ==
  OutputFile(1, [k \in 1..n |-> [sceneId |-> k, image |-> 1, audio |-> 0]], TRUE)

\* ----------------------------------------------------------------- aiService
\* The first two steps of the handlers: researchTopic then createScript for
\* a topic, analyzeContent then createScriptFromContent for a content.  Of
\* the values only what decides the control flow and the scenes is kept: a
\* content is a string with a number of usable sentences (longer than 20
\* characters) or another JSON value that has a length; keyPoints is an array
\* with a number of entries or another value the model's answer held there.

\* req.body.content after the handler's checks (!content, length < 50,
\* length > 10000): a string, or an array of that length
Contents ==
  {[isString |-> TRUE, sentences |-> n] : n \in 0..MaxKeyPoints}
    \cup {[isString |-> FALSE, sentences |-> 0]}

\* research.keyPoints || research.key_concepts || research.concepts || []
\* of a parsed answer: an array, or whatever truthy value was there
AnsweredKeyPoints ==
  {[isArray |-> TRUE, n |-> n] : n \in 0..MaxKeyPoints}
    \cup {[isArray |-> FALSE, n |-> 0]}

\* script.scenes of a parsed answer
AnsweredScenes == {q \in GeminiScenes : Len(q) <= 1}

\* simulateResearch: five key points
simulateResearch == [isArray |-> TRUE, n |-> 5]

\* simulateAnalysis: sentences.slice(0, 5).map(s => s.trim())
simulateAnalysis(content) == [isArray |-> TRUE, n |-> Min(content.sentences, 5)]

\* whether the simulation of the first step throws: simulateAnalysis calls
\* content.split, which only a string has
SimulatedResearchThrows(route, content) == route = "content" /\ ~content.isString

\* the key points the simulation of the first step returns
SimulatedResearch(route, content) ==
  IF route = "topic" THEN simulateResearch ELSE simulateAnalysis(content)

\* whether the simulation of the second step throws: simulateScript calls
\* researchData.keyPoints.slice(0, 5).map, simulateScriptFromContent
\* content.split
SimulatedScriptThrows(route, content, keyPoints) ==
  IF route = "topic" THEN ~keyPoints.isArray ELSE ~content.isString

\* the script the simulation of the second step returns
SimulatedScript(route, content, keyPoints) ==
  IF route = "topic" THEN simulateScript(keyPoints.n)
  ELSE simulateScriptFromContent(content.sentences)

\* the first step ends with its simulated result, or with what the simulation
\* throws
ResearchSimulated(route, content) ==
  ai' = IF SimulatedResearchThrows(route, content)
        THEN [ai EXCEPT !.pc = "threw", !.route = route, !.content = content]
        ELSE [ai EXCEPT !.pc = "researched", !.route = route, !.content = content,
                        !.keyPoints = SimulatedResearch(route, content)]

\* the second step ends with its simulated result, or with what the
\* simulation throws
ScriptSimulated ==
  ai' = IF SimulatedScriptThrows(ai.route, ai.content, ai.keyPoints)
        THEN [ai EXCEPT !.pc = "threw"]
        ELSE [ai EXCEPT !.pc = "returned", !.simulated = TRUE,
                        !.script = SimulatedScript(ai.route, ai.content, ai.keyPoints)]

\* everything of the server but the aiService steps
otherVars == <<runVars, genAI, streamed, responseVars, apiKey, hpc, hscript, himages,
               haudio, tried, consumed, hcleaned, assetFiles>>

\* researchTopic(topic) / analyzeContent(content) is called: if (!this.genAI)
\* the simulation answers; else the prompt is built (content.substring, inside
\* the try block) and this.model.generateContent(prompt) is awaited
ResearchStart ==
  /\ ai.pc = "idle"
  /\ \E route \in {"topic", "content"}, content \in Contents :
       /\ route = "topic" => content = NoContent
       /\ IF ~genAI \/ (route = "content" /\ ~content.isString)
          THEN ResearchSimulated(route, content)
          ELSE ai' = [ai EXCEPT !.pc = "researchModel", !.route = route,
                                !.content = content]
  /\ UNCHANGED otherVars

\* generateContent rejects, or the text of the answer cannot be parsed: the
\* catch block returns the simulation
ResearchModelFailed ==
  /\ ai.pc = "researchModel"
  /\ ResearchSimulated(ai.route, ai.content)
  /\ UNCHANGED otherVars

\* the answer is parsed: the research data / analysis is built from it
ResearchModelAnswered ==
  /\ ai.pc = "researchModel"
  /\ \E keyPoints \in AnsweredKeyPoints :
       ai' = [ai EXCEPT !.pc = "researched", !.keyPoints = keyPoints]
  /\ UNCHANGED otherVars

\* createScript(researchData) / createScriptFromContent(content, analysis) is
\* called: if (!this.genAI) the simulation answers; else the prompt is built
\* (keyPoints.join(', '), inside the try block) and generateContent is awaited
ScriptStart ==
  /\ ai.pc = "researched"
  /\ IF ~genAI \/ ~ai.keyPoints.isArray
     THEN ScriptSimulated
     ELSE ai' = [ai EXCEPT !.pc = "scriptModel"]
  /\ UNCHANGED otherVars

\* generateContent rejects, the text cannot be parsed, or the parsed answer
\* has no scenes to reduce: the catch block returns the simulation
ScriptModelFailed ==
  /\ ai.pc = "scriptModel"
  /\ ScriptSimulated
  /\ UNCHANGED otherVars

\* the answer is parsed and has scenes: totalDuration is computed and the
\* script returned
ScriptModelAnswered ==
  /\ ai.pc = "scriptModel"
  /\ \E scenes \in AnsweredScenes :
       ai' = [ai EXCEPT !.pc = "returned", !.simulated = FALSE,
                       !.script = createScript(scenes)]
  /\ UNCHANGED otherVars

\* --------------------------------------------------------------- specification
\* no request is being handled and no asset file is there
HandlersIdle ==
  /\ hpc = [q \in Runs |-> "idle"]
  /\ hscript = [q \in Runs |-> NoScript]
  /\ himages = [q \in Runs |-> <<>>]
  /\ haudio = [q \in Runs |-> <<>>]
  /\ tried = [q \in Runs |-> <<>>]
  /\ consumed = [q \in Runs |-> <<>>]
  /\ hcleaned = [q \in Runs |-> 0]
  /\ assetFiles = [p \in AssetPaths |-> 0]
  /\ hvideo = [q \in Runs |-> 0]
  /\ savedVideo = [q \in Runs |-> NoDocument]
  /\ response = [q \in Runs |-> NoResponse]
  /\ streamed = NoStream
  /\ ai = AiIdle

Init ==
  /\ pc = [r \in Runs |-> "idle"]
  /\ script = [r \in Runs |-> NoScript]
  /\ images = [r \in Runs |-> <<>>]
  /\ audioFiles = [r \in Runs |-> <<>>]
  /\ audioOnDisk = [r \in Runs |-> {}]
  /\ audioEmpty = [r \in Runs |-> {}]
  /\ audioLength = [r \in Runs |-> <<>>]
  /\ imageOnDisk = [r \in Runs |-> {}]
  /\ caller = [r \in Runs |-> "createVideo"]
  /\ videoId = [r \in Runs |-> 0]
  /\ i = [r \in Runs |-> 0]
  /\ segments = [r \in Runs |-> <<>>]
  /\ cleaned = [r \in Runs |-> 0]
  /\ stats = [r \in Runs |-> 0]
  /\ result = [r \in Runs |-> NoResult]
  /\ error = [r \in Runs |-> NoError]
  /\ skipped = [r \in Runs |-> {}]
  /\ attempted = [r \in Runs |-> <<>>]
  /\ concatArgs = [r \in Runs |-> <<>>]
  /\ tempFiles = [p \in TempPaths |-> NoFile]
  /\ outputFiles = [v \in VideoIds |-> NoFile]
  /\ uuidCount = 0
  /\ HandlersIdle
  /\ apiKey = FALSE
  /\ genAI = FALSE

\* segment files that an earlier run has left in the temp directory
LeftoverSegment(k) ==
  SegmentFile(2, k, [id |-> k + 1, duration |-> 30], k + 1, NoPath, 0, TRUE)

\* the service with any of the segment files left behind
InitConcat ==
  /\ pc = [r \in Runs |-> "idle"]
  /\ script = [r \in Runs |-> NoScript]
  /\ images = [r \in Runs |-> <<>>]
  /\ audioFiles = [r \in Runs |-> <<>>]
  /\ audioOnDisk = [r \in Runs |-> {}]
  /\ audioEmpty = [r \in Runs |-> {}]
  /\ audioLength = [r \in Runs |-> <<>>]
  /\ imageOnDisk = [r \in Runs |-> {}]
  /\ caller = [r \in Runs |-> "createVideo"]
  /\ videoId = [r \in Runs |-> 0]
  /\ i = [r \in Runs |-> 0]
  /\ segments = [r \in Runs |-> <<>>]
  /\ cleaned = [r \in Runs |-> 0]
  /\ stats = [r \in Runs |-> 0]
  /\ result = [r \in Runs |-> NoResult]
  /\ error = [r \in Runs |-> NoError]
  /\ skipped = [r \in Runs |-> {}]
  /\ attempted = [r \in Runs |-> <<>>]
  /\ concatArgs = [r \in Runs |-> <<>>]
  /\ \E present \in SUBSET (0..(MaxScenes - 1)) :
       tempFiles = [p \in TempPaths |->
                      IF p # ConcatFilePath /\ p[2] \in present
                      THEN LeftoverSegment(p[2]) ELSE NoFile]
  /\ outputFiles = [v \in VideoIds |-> NoFile]
  /\ uuidCount = 0
  /\ HandlersIdle
  /\ apiKey = FALSE
  /\ genAI = FALSE

\* the lists of segment paths a caller may pass to concatenateSegments
SegmentLists == SeqsUpTo({SegmentPath(k) : k \in 0..(MaxScenes - 1)}, MaxScenes)

\* a caller other than createVideo calls concatenateSegments
CallConcat(r) ==
  /\ pc[r] = "idle"
  /\ \E segs \in SegmentLists, v \in VideoIds : concatenateSegments(r, segs, v)

\* one direct concatenateSegments call from start to end
NextConcat ==
  \/ CallConcat(1)
  \/ ManifestWritten(1)
  \/ ConcatEnd(1)
  \/ ConcatError(1)
  \/ ManifestUnlinked(1)

SpecConcat == InitConcat /\ [][NextConcat]_vars

\* a request handler calls createVideo with one of the given inputs
Call(r, inputs) ==
  /\ pc[r] = "idle"
  /\ \E input \in inputs : createVideo(r, input)

\* one createVideo call from start to end
Next ==
  \/ Call(1, Inputs)
  \/ EncodeEnd(1)
  \/ EncodeError(1)
  \/ ManifestWritten(1)
  \/ ConcatEnd(1)
  \/ ConcatError(1)
  \/ ManifestUnlinked(1)
  \/ StatDone(1)
  \/ CleanupUnlink(1)

Spec == Init /\ [][Next]_vars

\* the createVideo calls of two requests, in any interleaving of their awaits
NextConc ==
  \/ \E r \in Runs : Call(r, ConcInputs)
  \/ \E r \in Runs : EncodeEnd(r)
  \/ \E r \in Runs : EncodeError(r)
  \/ \E r \in Runs : ManifestWritten(r)
  \/ \E r \in Runs : ConcatEnd(r)
  \/ \E r \in Runs : ConcatError(r)
  \/ \E r \in Runs : ManifestUnlinked(r)
  \/ \E r \in Runs : StatDone(r)
  \/ \E r \in Runs : CleanupUnlink(r)

SpecConc == Init /\ [][NextConc]_vars

\* --------------------------------------------------------------- requests
\* the server with or without an ElevenLabs key
InitRequest ==
  /\ pc = [r \in Runs |-> "idle"]
  /\ script = [r \in Runs |-> NoScript]
  /\ images = [r \in Runs |-> <<>>]
  /\ audioFiles = [r \in Runs |-> <<>>]
  /\ audioOnDisk = [r \in Runs |-> {}]
  /\ audioEmpty = [r \in Runs |-> {}]
  /\ audioLength = [r \in Runs |-> <<>>]
  /\ imageOnDisk = [r \in Runs |-> {}]
  /\ caller = [r \in Runs |-> "createVideo"]
  /\ videoId = [r \in Runs |-> 0]
  /\ i = [r \in Runs |-> 0]
  /\ segments = [r \in Runs |-> <<>>]
  /\ cleaned = [r \in Runs |-> 0]
  /\ stats = [r \in Runs |-> 0]
  /\ result = [r \in Runs |-> NoResult]
  /\ error = [r \in Runs |-> NoError]
  /\ skipped = [r \in Runs |-> {}]
  /\ attempted = [r \in Runs |-> <<>>]
  /\ concatArgs = [r \in Runs |-> <<>>]
  /\ tempFiles = [p \in TempPaths |-> NoFile]
  /\ outputFiles = [v \in VideoIds |-> NoFile]
  /\ uuidCount = 0
  /\ HandlersIdle
  /\ apiKey \in BOOLEAN
  /\ genAI = FALSE

\* a request arrives
Arrive(q, scripts) ==
  /\ hpc[q] = "idle"
  /\ \E scr \in scripts : Request(q, scr)

\* one request from its script to its response
NextRequest ==
  \/ Arrive(1, RequestScripts(MaxScenes))
  \/ ImageWritten(1)
  \/ ImageFailed(1)
  \/ ElevenAnswered(1)
  \/ ElevenWritten(1)
  \/ ElevenFailed(1)
  \/ GoogleSaved(1)
  \/ GoogleFailed(1)
  \/ VideoEncode(1)
  \/ VideoFailed(1)
  \/ VideoReturned(1)
  \/ VideoSaved(1)
  \/ ImageUnlinked(1)
  \/ AudioUnlinked(1)

SpecRequest == InitRequest /\ [][NextRequest]_vars

\* two requests at the same time, in any interleaving of their awaits
NextServer ==
  \/ \E q \in Runs : Arrive(q, RequestScripts(Min(MaxConcScenes, MaxScenes)))
  \/ \E q \in Runs : ImageWritten(q)
  \/ \E q \in Runs : ImageFailed(q)
  \/ \E q \in Runs : ElevenAnswered(q)
  \/ \E q \in Runs : ElevenWritten(q)
  \/ \E q \in Runs : ElevenFailed(q)
  \/ \E q \in Runs : GoogleSaved(q)
  \/ \E q \in Runs : GoogleFailed(q)
  \/ \E q \in Runs : VideoEncode(q)
  \/ \E q \in Runs : VideoFailed(q)
  \/ \E q \in Runs : VideoReturned(q)
  \/ \E q \in Runs : VideoSaved(q)
  \/ \E q \in Runs : ImageUnlinked(q)
  \/ \E q \in Runs : AudioUnlinked(q)

SpecServer == InitRequest /\ [][NextServer]_vars

\* --------------------------------------------------------------- streaming
\* the server at rest with any of the videos it has rendered in output/videos
InitStream ==
  /\ pc = [r \in Runs |-> "idle"]
  /\ script = [r \in Runs |-> NoScript]
  /\ images = [r \in Runs |-> <<>>]
  /\ audioFiles = [r \in Runs |-> <<>>]
  /\ audioOnDisk = [r \in Runs |-> {}]
  /\ audioEmpty = [r \in Runs |-> {}]
  /\ audioLength = [r \in Runs |-> <<>>]
  /\ imageOnDisk = [r \in Runs |-> {}]
  /\ caller = [r \in Runs |-> "createVideo"]
  /\ videoId = [r \in Runs |-> 0]
  /\ i = [r \in Runs |-> 0]
  /\ segments = [r \in Runs |-> <<>>]
  /\ cleaned = [r \in Runs |-> 0]
  /\ stats = [r \in Runs |-> 0]
  /\ result = [r \in Runs |-> NoResult]
  /\ error = [r \in Runs |-> NoError]
  /\ skipped = [r \in Runs |-> {}]
  /\ attempted = [r \in Runs |-> <<>>]
  /\ concatArgs = [r \in Runs |-> <<>>]
  /\ tempFiles = [p \in TempPaths |-> NoFile]
  /\ outputFiles \in [VideoIds -> {NoFile} \cup {RenderedVideo(n) : n \in 1..MaxScenes}]
  /\ uuidCount = Cardinality(Runs)
  /\ HandlersIdle
  /\ apiKey = FALSE
  /\ genAI = FALSE

\* requests to the stream endpoint, one after the other
NextStream == StreamVideo

SpecStream == InitStream /\ [][NextStream]_vars

\* --------------------------------------------------------------- scripts
\* the server with or without a Gemini key
InitAi ==
  /\ pc = [r \in Runs |-> "idle"]
  /\ script = [r \in Runs |-> NoScript]
  /\ images = [r \in Runs |-> <<>>]
  /\ audioFiles = [r \in Runs |-> <<>>]
  /\ audioOnDisk = [r \in Runs |-> {}]
  /\ audioEmpty = [r \in Runs |-> {}]
  /\ audioLength = [r \in Runs |-> <<>>]
  /\ imageOnDisk = [r \in Runs |-> {}]
  /\ caller = [r \in Runs |-> "createVideo"]
  /\ videoId = [r \in Runs |-> 0]
  /\ i = [r \in Runs |-> 0]
  /\ segments = [r \in Runs |-> <<>>]
  /\ cleaned = [r \in Runs |-> 0]
  /\ stats = [r \in Runs |-> 0]
  /\ result = [r \in Runs |-> NoResult]
  /\ error = [r \in Runs |-> NoError]
  /\ skipped = [r \in Runs |-> {}]
  /\ attempted = [r \in Runs |-> <<>>]
  /\ concatArgs = [r \in Runs |-> <<>>]
  /\ tempFiles = [p \in TempPaths |-> NoFile]
  /\ outputFiles = [v \in VideoIds |-> NoFile]
  /\ uuidCount = 0
  /\ HandlersIdle
  /\ apiKey = FALSE
  /\ genAI \in BOOLEAN

\* one request from its arrival to its script
NextAi ==
  \/ ResearchStart
  \/ ResearchModelFailed
  \/ ResearchModelAnswered
  \/ ScriptStart
  \/ ScriptModelFailed
  \/ ScriptModelAnswered

SpecAi == InitAi /\ [][NextAi]_vars

\* --------------------------------------------------------------- progress
\* one createVideo call from start to end, seen for as long as it takes
NextLive ==
  \/ Call(1, ConcInputs \cup LengthInputs)
  \/ EncodeEnd(1)
  \/ EncodeError(1)
  \/ ManifestWritten(1)
  \/ ConcatEnd(1)
  \/ ConcatError(1)
  \/ ManifestUnlinked(1)
  \/ StatDone(1)
  \/ CleanupUnlink(1)

\* The promises of fs.writeFile, fs.unlink and fs.stat settle, so the steps
\* that wait for them are taken.  The 'end' and 'error' events of an ffmpeg
\* command come when the child process exits; no timeout is set on the
\* command, so nothing makes them come.
SpecLive ==
  /\ Init
  /\ [][NextLive]_vars
  /\ WF_vars(ManifestWritten(1))
  /\ WF_vars(ManifestUnlinked(1))
  /\ WF_vars(StatDone(1))
  /\ WF_vars(CleanupUnlink(1))

\* --------------------------------------------------------------- shutdown
\* a createVideo call that is waiting for ffmpeg or for the file system
Running(r) ==
  pc[r] \in {"encoding", "writingManifest", "concatenating", "unlinkingManifest",
             "stat", "cleanup"}

\* the SIGTERM / SIGINT handler: the database connection is closed and
\* process.exit(0) ends every call where it stands.  Nothing stops the
\* ffmpeg child and nothing removes a file: a segment that was being encoded
\* stays as far as it got, or is finished by the child left behind.
ProcessExit ==
  /\ \E r \in Runs : Running(r)
  /\ pc' = [r \in Runs |-> IF Running(r) THEN "exited" ELSE pc[r]]
  /\ \E finishes \in BOOLEAN :
       tempFiles' = [p \in TempPaths |->
                       IF finishes /\ tempFiles[p].kind = "segment"
                       THEN [tempFiles[p] EXCEPT !.complete = TRUE]
                       ELSE tempFiles[p]]
  /\ UNCHANGED <<handlerVars, inputVars, localVars, logVars, outputFiles,
                 uuidCount>>

\* one createVideo call and a shutdown signal at any moment of it
NextShutdown ==
  \/ Call(1, ConcInputs \cup LengthInputs)
  \/ EncodeEnd(1)
  \/ EncodeError(1)
  \/ ManifestWritten(1)
  \/ ConcatEnd(1)
  \/ ConcatError(1)
  \/ ManifestUnlinked(1)
  \/ StatDone(1)
  \/ CleanupUnlink(1)
  \/ ProcessExit

SpecShutdown == Init /\ [][NextShutdown]_vars

TypeOK ==
  /\ pc \in [Runs -> {"idle", "encoding", "writingManifest", "concatenating",
                      "unlinkingManifest", "stat", "cleanup", "done", "failed",
                      "resolved", "rejected", "exited"}]
  /\ \A r \in Runs : i[r] \in 0..Len(script[r].scenes)
  /\ \A r \in Runs :
       caller[r] = "createVideo" => Len(segments[r]) <= Len(script[r].scenes)
  /\ uuidCount \in 0..Cardinality(Runs)

\* ---------------------------------------------------------------- vocabulary
\* the words the properties below are stated in
Range(q) == {q[k] : k \in 1..Len(q)}
Positions(r) == 0..(Len(script[r].scenes) - 1)
Started(r) == pc[r] # "idle"
Terminal(r) == pc[r] \in {"done", "failed"}
InProgress(r) == Started(r) /\ ~Terminal(r)

\* the records of an asset list whose sceneId is id, and the first of them
Matches(assets, id) == {k \in 1..Len(assets) : assets[k].sceneId = id}
FirstMatch(assets, id) ==
  CHOOSE k \in Matches(assets, id) : \A m \in Matches(assets, id) : k <= m

\* the scene at position j has no image asset with its id, or the asset that
\* matches it (the first, when there are several) has no path
NoImageFor(r, j) ==
  LET id == script[r].scenes[j + 1].id
  IN \/ Matches(images[r], id) = {}
     \/ images[r][FirstMatch(images[r], id)].path = NoPath

\* the scene at position j has no audio asset, or one with a null path, or
\* one marked silent
NoNarrationFor(r, j) ==
  LET id == script[r].scenes[j + 1].id
  IN \/ Matches(audioFiles[r], id) = {}
     \/ audioFiles[r][FirstMatch(audioFiles[r], id)].path = NoPath
     \/ audioFiles[r][FirstMatch(audioFiles[r], id)].silent

\* the scene position a segment path was made for
SceneOf(segmentPath) == segmentPath[2]

\* sum of scene.duration over the scenes whose segments are in segs
RECURSIVE ProducedDuration(_, _)
ProducedDuration(scr, segs) ==
  IF segs = <<>> THEN 0
  ELSE scr.scenes[SceneOf(segs[1]) + 1].duration + ProducedDuration(scr, Tail(segs))

\* ------------------------------------------------------------------- claims

\* C1: the list of segment paths passed to concatenateSegments follows the
\* position of the scenes in script.scenes: the segment of an earlier scene
\* precedes the segment of a later scene, no segment appears twice, and every
\* segment in it belongs to a scene that has an image and was encoded.
C1_SegmentsInSceneOrder ==
  \A r \in Runs : \A c \in 1..Len(concatArgs[r]) :
    LET list == concatArgs[r][c]
    IN /\ \A a, b \in 1..Len(list) :
            a < b => SceneOf(list[a]) < SceneOf(list[b])
       /\ \A a \in 1..Len(list) :
            /\ list[a] = SegmentPath(SceneOf(list[a]))
            /\ SceneOf(list[a]) \in Positions(r)
            /\ ~NoImageFor(r, SceneOf(list[a]))
            /\ SceneOf(list[a]) \in Range(attempted[r])

\* a run that skipped the middle scene and passed the segments of the first
\* and the third scene to concatenateSegments
C1_Witness ==
  \E r \in Runs :
    /\ skipped[r] = {1}
    /\ concatArgs[r] = <<(<<SegmentPath(0), SegmentPath(2)>>)>>

\* C2: for every successful run the duration of the returned object is the
\* sum of scene.duration over exactly the scenes that produced a segment.
C2_DurationOfProducedScenes ==
  \A r \in Runs :
    pc[r] = "done" => result[r].duration = ProducedDuration(script[r], segments[r])

\* C3: for a non-empty script whose scenes all have an image, the duration
\* of the returned object is the sum of the durations of all scenes.
C3_DurationOfAllScenes ==
  \A r \in Runs :
    (/\ pc[r] = "done"
     /\ script[r].scenes # <<>>
     /\ \A j \in Positions(r) : ~NoImageFor(r, j))
    => result[r].duration = SumDurations(script[r].scenes)

\* C4: a failed encode of one scene does not abort the run: the following
\* scenes that have an image are still encoded, and the segments that were
\* produced are still concatenated.
C4_EncodeFailureSkipsScene ==
  \A r \in Runs :
    Terminal(r) =>
      /\ \A j \in Positions(r) : ~NoImageFor(r, j) => j \in Range(attempted[r])
      /\ segments[r] # <<>> => concatArgs[r] # <<>>

\* C5: a scene without a resolvable image produces no segment and no
\* createSegment call and is warned about, the loop goes on to the next scene
\* that has an image, and the run fails for want of segments only when no
\* scene produced one.
C5_MissingImageSkipsScene ==
  \A r \in Runs :
    /\ \A j \in Positions(r) :
         (Started(r) /\ j < i[r] /\ NoImageFor(r, j)) =>
           /\ j \in skipped[r]
           /\ j \notin Range(attempted[r])
           /\ SegmentPath(j) \notin Range(segments[r])
           /\ \A m \in Positions(r) :
                (/\ j < m
                 /\ ~NoImageFor(r, m)
                 /\ \A k \in (j + 1)..(m - 1) : NoImageFor(r, k))
                => m \in Range(attempted[r])
    /\ \A j \in skipped[r] : NoImageFor(r, j)
    /\ (pc[r] = "failed" /\ error[r] = NoValidSegments) => segments[r] = <<>>

\* a run that skipped a scene without image and still returned a result
C5_Witness ==
  \E r \in Runs :
    /\ pc[r] = "done"
    /\ skipped[r] # {}
    /\ \E j \in Positions(r) : NoImageFor(r, j) /\ j + 1 \in Range(attempted[r])

\* C6: after a run has reached a terminal state, success or failure, none of
\* its temporary files (segments, concat list) remains.
C6_NoTempFileAfterRun ==
  \A r \in Runs :
    Terminal(r) =>
      \A p \in TempPaths : tempFiles[p].kind = "none" \/ tempFiles[p].run # r

\* the temporary paths a run has written or is writing
TempPathsOf(r) ==
  Range(segments[r])
  \cup (IF pc[r] = "encoding" THEN {SegmentPath(i[r])} ELSE {})
  \cup (IF pc[r] \in {"writingManifest", "concatenating", "unlinkingManifest"}
        THEN {ConcatFilePath} ELSE {})

\* C7: two runs in progress at the same time share no temporary file.
C7_NoSharedTempFile ==
  \A r1, r2 \in Runs :
    (r1 # r2 /\ InProgress(r1) /\ InProgress(r2))
    => TempPathsOf(r1) \cap TempPathsOf(r2) = {}

\* C8: every segment written by createSegment carries an audio stream, so
\* the segments concatenated into one output all have the same stream layout.
C8_EverySegmentHasAudio ==
  /\ \A p \in TempPaths :
       (tempFiles[p].kind = "segment" /\ tempFiles[p].complete) => tempFiles[p].audio
  /\ \A v \in VideoIds :
       outputFiles[v].kind = "video" =>
         \A a, b \in 1..Len(outputFiles[v].parts) :
           outputFiles[v].parts[a].audio = outputFiles[v].parts[b].audio

\* C9: when no scene of the script has a resolvable image the run fails with
\* "No valid segments created", concatenateSegments is not called and no
\* output file is written.
C9_NoImagesNoValidSegments ==
  \A r \in Runs :
    (Started(r) /\ \A j \in Positions(r) : NoImageFor(r, j)) =>
      /\ pc[r] = "failed"
      /\ error[r] = NoValidSegments
      /\ attempted[r] = <<>>
      /\ concatArgs[r] = <<>>
      /\ outputFiles[videoId[r]] = NoFile

\* a failed run over a script of several scenes none of which has an image
C9_Witness ==
  \E r \in Runs :
    /\ pc[r] = "failed"
    /\ Len(script[r].scenes) >= 2
    /\ images[r] # <<>>
    /\ \A j \in Positions(r) : NoImageFor(r, j)

\* C10: when every scene has an image and every encode fails, the run fails
\* with "No valid segments created" after all scenes were attempted, and no
\* temporary file is left.
C10_AllEncodesFail ==
  \A r \in Runs :
    (/\ Terminal(r)
     /\ script[r].scenes # <<>>
     /\ \A j \in Positions(r) : ~NoImageFor(r, j)
     /\ segments[r] = <<>>)
    => /\ error[r] = NoValidSegments
       /\ Len(attempted[r]) = Len(script[r].scenes)
       /\ \A p \in TempPaths : tempFiles[p] = NoFile

C12_ConcatAfterEncodesSettled ==
  \A r \in Runs :
    pc[r] \in {"writingManifest", "concatenating"} =>
      /\ i[r] = Len(script[r].scenes)
      /\ \A j \in Positions(r) :
           j \in skipped[r] \/ SegmentPath(j) \in Range(segments[r])
      /\ \A r2 \in Runs :
           pc[r2] = "encoding" => SegmentPath(i[r2]) \notin Range(segments[r])

\* the stages of the orchestrator's state machine
Stage(r) ==
  CASE pc[r] = "idle" -> "INIT"
    [] pc[r] = "encoding" -> "ENCODING"
    [] pc[r] \in {"writingManifest", "concatenating", "unlinkingManifest"} -> "CONCATENATING"
    [] pc[r] \in {"stat", "cleanup"} -> "FINALIZING"
    [] pc[r] = "done" -> "DONE"
    [] OTHER -> "FAILED"

StageRank(stage) ==
  CASE stage = "INIT" -> 0
    [] stage = "ENCODING" -> 1
    [] stage = "CONCATENATING" -> 2
    [] stage = "FINALIZING" -> 3
    [] OTHER -> 4

\* the stage of a run after the step
StageAfter(r) ==
  CASE pc'[r] = "idle" -> "INIT"
    [] pc'[r] = "encoding" -> "ENCODING"
    [] pc'[r] \in {"writingManifest", "concatenating", "unlinkingManifest"} -> "CONCATENATING"
    [] pc'[r] \in {"stat", "cleanup"} -> "FINALIZING"
    [] pc'[r] = "done" -> "DONE"
    [] OTHER -> "FAILED"

C13_StageState ==
  \A r \in Runs :
    /\ Len(concatArgs[r]) <= 1
    /\ concatArgs[r] # <<>> => i[r] = Len(script[r].scenes)
    /\ Stage(r) = "CONCATENATING" => concatArgs[r] # <<>>
    /\ Stage(r) \in {"FINALIZING", "DONE"} =>
         /\ outputFiles[videoId[r]].kind = "video"
         /\ outputFiles[videoId[r]].complete
    /\ result[r] # NoResult <=> Stage(r) = "DONE"

C13_StageStep ==
  \A r \in Runs :
    /\ StageRank(Stage(r)) <= StageRank(StageAfter(r))
    /\ Stage(r) \in {"DONE", "FAILED"} => StageAfter(r) = Stage(r)
    /\ (StageAfter(r) = "DONE" /\ Stage(r) # "DONE") => Stage(r) = "FINALIZING"
    /\ (StageAfter(r) = "FINALIZING" /\ Stage(r) # "FINALIZING")
         => Stage(r) = "CONCATENATING"
    /\ (StageAfter(r) = "CONCATENATING" /\ Stage(r) # "CONCATENATING")
         => Stage(r) = "ENCODING"

\* C13: a run goes through INIT, ENCODING, CONCATENATING, FINALIZING in this
\* order and ends in DONE or FAILED, which it never leaves; concatenation is
\* invoked at most once and after the scene loop, the output is stat'ed only
\* after the concatenation succeeded, and a result exists exactly in DONE.
C13_StageOrder == [](C13_StageState) /\ [][C13_StageStep]_vars

\* a run that went through every stage and returned its result
C13_Witness ==
  \E r \in Runs :
    /\ pc[r] = "done"
    /\ result[r].videoId = videoId[r]
    /\ Len(concatArgs[r]) = 1
    /\ Len(segments[r]) = Len(script[r].scenes)
    /\ Len(segments[r]) = 3

\* C14: a script without scenes fails with InvalidScript, an error other
\* than "No valid segments created", before any work is done.
C14_EmptyScriptInvalid ==
  \A r \in Runs :
    (Started(r) /\ caller[r] = "createVideo" /\ script[r].scenes = <<>>) =>
      /\ pc[r] = "failed"
      /\ error[r] # NoValidSegments
      /\ attempted[r] = <<>>
      /\ concatArgs[r] = <<>>
      /\ \A p \in TempPaths : tempFiles[p] = NoFile
      /\ outputFiles[videoId[r]] = NoFile

\* the concatenation of run r ends in this step without a complete output
ConcatFails(r) ==
  /\ pc[r] = "concatenating"
  /\ pc'[r] # "concatenating"
  /\ \/ outputFiles'[videoId[r]].kind # "video"
     \/ ~outputFiles'[videoId[r]].complete

C15_FailureState ==
  \A r \in Runs :
    error[r] = ConcatFailure =>
      /\ pc[r] = "failed"
      /\ result[r] = NoResult
      /\ segments[r] # <<>>
      /\ Len(concatArgs[r]) = 1

C15_FailureStep ==
  \A r \in Runs :
    ConcatFails(r) =>
      /\ pc'[r] = "failed"
      /\ error'[r] = ConcatFailure
      /\ result'[r] = NoResult
      /\ concatArgs'[r] = concatArgs[r]

\* C15: when the concatenation of a run with segments fails, createVideo
\* fails with the concatenation error, does not start the concatenation
\* again and returns no result.
C15_ConcatFailurePropagates == [](C15_FailureState) /\ [][C15_FailureStep]_vars

\* a run with two segments that failed with the concatenation error
C15_Witness ==
  \E r \in Runs :
    /\ pc[r] = "failed"
    /\ error[r] = ConcatFailure
    /\ Len(segments[r]) >= 2

\* C16: a run that failed for want of segments or in the concatenation
\* rejects with an error that carries the run's videoId and the failed stage.
C16_StructuredError ==
  \A r \in Runs :
    (pc[r] = "failed" /\ error[r] \in {NoValidSegments, ConcatFailure}) =>
      /\ "videoId" \in DOMAIN error[r]
      /\ "stage" \in DOMAIN error[r]
      /\ error[r].videoId = videoId[r]

C17_OwnOutputState ==
  /\ \A r1, r2 \in Runs :
       (r1 # r2 /\ Started(r1) /\ Started(r2)) => videoId[r1] # videoId[r2]
  /\ \A v \in VideoIds :
       outputFiles[v].kind = "video" => videoId[outputFiles[v].run] = v

C17_OwnOutputStep ==
  \A v \in VideoIds :
    outputFiles'[v] # outputFiles[v] =>
      /\ outputFiles[v] = NoFile
      /\ \E r \in Runs :
           /\ videoId[r] = v
           /\ pc[r] = "concatenating"
           /\ outputFiles'[v].kind = "video"
           /\ outputFiles'[v].run = r

\* C17: every run has an identifier, and so an output file name, of its own:
\* an output file is written only by the run whose identifier names it, once,
\* and is never overwritten or removed, also when runs overlap.
C17_OutputFileOfItsOwn == [](C17_OwnOutputState) /\ [][C17_OwnOutputStep]_vars

\* two runs between concatenation and return at the same time, each with its
\* output file written
C17_Witness ==
  \E r1, r2 \in Runs :
    /\ r1 # r2
    /\ pc[r1] \in {"unlinkingManifest", "stat", "cleanup"}
    /\ pc[r2] \in {"unlinkingManifest", "stat", "cleanup"}
    /\ outputFiles[videoId[r1]].kind = "video"
    /\ outputFiles[videoId[r2]].kind = "video"

\* C18: concatenateSegments called with an empty list rejects with the
\* concatenation error without spawning ffmpeg and without writing the list
\* file or an output file.
C18_EmptyListRejected ==
  \A r \in Runs :
    (Started(r) /\ caller[r] = "direct" /\ segments[r] = <<>>) =>
      /\ pc[r] = "rejected"
      /\ error[r] = ConcatFailure
      /\ tempFiles[ConcatFilePath] = NoFile
      /\ outputFiles[videoId[r]] = NoFile

C19_FirstMatchState ==
  \A r \in Runs : \A j \in Positions(r) :
    LET id == script[r].scenes[j + 1].id
        f == tempFiles[SegmentPath(j)]
    IN (caller[r] = "createVideo" /\ f.kind = "segment" /\ f.run = r) =>
         /\ Matches(images[r], id) # {}
         /\ f.image # NoPath
         /\ f.image = images[r][FirstMatch(images[r], id)].path
         /\ f.narration # NoPath =>
              /\ Matches(audioFiles[r], id) # {}
              /\ f.narration = audioFiles[r][FirstMatch(audioFiles[r], id)].path

C19_NoMutationStep ==
  \A r \in Runs :
    Started(r) =>
      /\ script'[r] = script[r]
      /\ images'[r] = images[r]
      /\ audioFiles'[r] = audioFiles[r]

\* C19: a scene is encoded from the first image asset and the first audio
\* asset, in list order, whose sceneId equals the scene's id, also when later
\* assets carry the same sceneId; the run goes on without an error, and
\* neither the asset lists nor the script change during the run.
C19_FirstMatchingAsset == [](C19_FirstMatchState) /\ [][C19_NoMutationStep]_vars

\* a run that got to the end with a scene that has two image assets and two
\* audio assets, encoded with narration
C19_Witness ==
  \E r \in Runs : \E j \in Positions(r) :
    LET id == script[r].scenes[j + 1].id
        f == tempFiles[SegmentPath(j)]
    IN /\ pc[r] = "stat"
       /\ Cardinality(Matches(images[r], id)) > 1
       /\ Cardinality(Matches(audioFiles[r], id)) > 1
       /\ f.kind = "segment" /\ f.run = r /\ f.complete
       /\ f.narration # NoPath

\* C20: a segment has narration only from an audio path whose file exists and
\* is not empty, and a scene whose audio path names a missing or an empty file
\* can still be encoded (without narration).
C20_UnusableAudioIsNoNarration ==
  \A r \in Runs :
    caller[r] = "createVideo" =>
      /\ \A j \in Positions(r) :
           LET f == tempFiles[SegmentPath(j)]
           IN (f.kind = "segment" /\ f.run = r /\ f.audio) =>
                f.narration \in (audioOnDisk[r] \ audioEmpty[r])
      /\ pc[r] = "encoding" =>
           LET audioPath == AudioPathArg(audioFiles[r], script[r], i[r])
           IN (audioPath # NoPath
               /\ (audioPath \notin audioOnDisk[r] \/ audioPath \in audioEmpty[r])) =>
                ENABLED EncodeEnd(r)

\* C21: a segment never plays longer than scene.duration: encoded with
\* narration it plays as long as the shorter of scene.duration and the
\* narration, encoded without as long as scene.duration.
C21_SegmentLength ==
  \A r \in Runs : \A j \in Positions(r) :
    LET f == tempFiles[SegmentPath(j)]
        scene == script[r].scenes[j + 1]
    IN (caller[r] = "createVideo" /\ f.kind = "segment" /\ f.run = r /\ f.complete) =>
         /\ f.length <= scene.duration
         /\ f.audio => f.length = Min(scene.duration, audioLength[r][f.narration])
         /\ ~f.audio => f.length = scene.duration

\* a segment encoded with a narration that plays longer than the scene lasts
C21_Witness ==
  \E r \in Runs : \E j \in Positions(r) :
    LET f == tempFiles[SegmentPath(j)]
    IN /\ f.kind = "segment" /\ f.run = r /\ f.complete /\ f.audio
       /\ audioLength[r][f.narration] > script[r].scenes[j + 1].duration

\* C22: the script a request hands to createVideo, whichever builder made it,
\* has totalDuration equal to the sum of the durations of its scenes.
C22_TotalDurationIsSum ==
  \A r \in Runs :
    (Started(r) /\ caller[r] = "createVideo") =>
      script[r].totalDuration = SumDurations(script[r].scenes)

C23_CleanupState ==
  \A r \in Runs :
    pc[r] = "cleanup" => /\ error[r] = NoError
                         /\ cleaned[r] <= Len(segments[r])

C23_CleanupStep ==
  \A r \in Runs :
    pc[r] = "cleanup" =>
      /\ pc'[r] \in {"cleanup", "done"}
      /\ cleaned'[r] \in {cleaned[r], cleaned[r] + 1}
      /\ pc'[r] = "done" =>
           /\ cleaned'[r] = Len(segments[r])
           /\ result'[r].videoId = videoId[r]
           /\ result'[r].size = stats[r]
           /\ error'[r] = NoError

\* C23: a segment file that cleanupSegments cannot delete does not fail the
\* run: the loop goes on to the remaining segments, and after the last one
\* createVideo returns the result object.
C23_CleanupNeverFails == [](C23_CleanupState) /\ [][C23_CleanupStep]_vars

\* a run that returned its result although its first segment file could not
\* be deleted and is still there
C23_Witness ==
  \E r \in Runs :
    /\ pc[r] = "done"
    /\ Len(segments[r]) > 1
    /\ tempFiles[segments[r][1]].kind = "segment"
    /\ tempFiles[segments[r][Len(segments[r])]] = NoFile
    /\ result[r].videoId = videoId[r]

\* files passed in that createVideo finds in place at the start of a run
C24_AssetStep ==
  \A r \in Runs :
    (Started(r) /\ caller[r] = "createVideo") =>
      /\ imageOnDisk'[r] = imageOnDisk[r]
      /\ audioOnDisk'[r] = audioOnDisk[r]
      /\ audioEmpty'[r] = audioEmpty[r]
      /\ audioLength'[r] = audioLength[r]

C24_RemovedStep ==
  \A v \in VideoIds : outputFiles[v] # NoFile => outputFiles'[v] # NoFile

\* C24: no step of a createVideo run deletes or changes an image file or an
\* audio file it was given; the files a run removes are segment files and
\* the concat list.
C24_InputAssetsUntouched == [][C24_AssetStep /\ C24_RemovedStep]_vars

\* a finished run that has deleted its segment files and whose image and
\* audio files are on disk
C24_Witness ==
  \E r \in Runs :
    /\ pc[r] = "done"
    /\ \A k \in 1..Len(segments[r]) : tempFiles[segments[r][k]] = NoFile
    /\ imageOnDisk[r] # {}
    /\ audioOnDisk[r] # {}
    /\ \E k \in 1..Len(attempted[r]) :
         AudioPathArg(audioFiles[r], script[r], attempted[r][k]) \in audioOnDisk[r]

\* C25: when the server is shut down while a run is encoding or
\* concatenating, the run's temporary files and its partial output are
\* removed before the process is gone: no segment file, no concat list and
\* no unfinished output file of the run is left.
C25_ShutdownRemovesFiles ==
  \A r \in Runs :
    pc[r] = "exited" =>
      /\ \A p \in TempPaths : tempFiles[p] = NoFile \/ tempFiles[p].run # r
      /\ \/ outputFiles[videoId[r]] = NoFile
         \/ outputFiles[videoId[r]].complete

\* C26: every createVideo run that has started gets to DONE or FAILED, also
\* when an ffmpeg process reports neither end nor error.
C26_RunTerminates ==
  \A r \in Runs : (pc[r] # "idle") ~> (pc[r] \in {"done", "failed"})

\* positions of a handler: generating assets, past createVideo
Generating(q) ==
  hpc[q] \in {"genImage", "genFallback", "eleven", "elevenWrite", "google",
              "googleFallback"}
Synthesizing(q) == hpc[q] \in {"eleven", "elevenWrite", "google", "googleFallback"}
PastVideo(q) == hpc[q] \in {"saving", "cleanupImages", "cleanupAudio", "responded"}

C27_OrderState ==
  \A q \in Runs :
    /\ (hpc[q] = "video" \/ PastVideo(q)) =>
         /\ Len(himages[q]) = Len(hscript[q].scenes)
         /\ Len(haudio[q]) = Len(hscript[q].scenes)
    /\ consumed[q] # <<>> => (hpc[q] \in {"video", "failed"} \/ PastVideo(q))
    /\ PastVideo(q) => Len(consumed[q]) = Len(hscript[q].scenes)

C27_OrderStep ==
  /\ \A p \in AssetPaths :
       /\ (assetFiles[p] # 0 /\ assetFiles'[p] = 0) =>
            \E q \in Runs : hpc[q] \in {"cleanupImages", "cleanupAudio"}
       /\ (assetFiles'[p] # 0 /\ assetFiles'[p] # assetFiles[p]) =>
            \E q \in Runs : Generating(q)
  /\ \A q \in Runs :
       hpc[q] = "video" =>
         /\ himages'[q] = himages[q]
         /\ haudio'[q] = haudio[q]
         /\ (\A o \in Runs \ {q} : hpc[o] = "idle") => assetFiles' = assetFiles

\* C27: a handler calls createVideo only when generateSceneImages and
\* generateAudioForScenes have gone through every scene of the script, and
\* unlinks asset files only after createVideo has returned; while createVideo
\* runs, no asset is added to the lists and no asset file is written.
C27_GenerateRenderCleanup == [](C27_OrderState) /\ [][C27_OrderStep]_vars

\* a request of several scenes that was answered and has removed its assets
C27_Witness ==
  /\ hpc[1] = "responded"
  /\ Len(hscript[1].scenes) > 1
  /\ Len(consumed[1]) = Len(hscript[1].scenes)
  /\ \A p \in AssetPaths : assetFiles[p] = 0

C28_AudioListState ==
  \A q \in Runs :
    /\ Len(haudio[q]) <= Len(hscript[q].scenes)
    /\ \A k \in 1..Len(haudio[q]) :
         LET a == haudio[q][k]
         IN /\ a.sceneId = hscript[q].scenes[k].id
            /\ \/ a.path = NoAsset /\ a.silent
               \/ a.path = AudioPath(a.sceneId) /\ ~a.silent
    /\ (hpc[q] = "video" \/ PastVideo(q)) => Len(haudio[q]) = Len(hscript[q].scenes)

C28_AudioListStep ==
  \A q \in Runs :
    /\ Synthesizing(q) => hpc'[q] # "failed"
    /\ haudio'[q] # haudio[q] =>
         /\ Synthesizing(q)
         /\ Len(haudio'[q]) = Len(haudio[q]) + 1
         /\ SubSeq(haudio'[q], 1, Len(haudio[q])) = haudio[q]
         /\ (haudio'[q][Len(haudio'[q])].path = NoAsset)
              = ~tried'[q][Len(tried'[q])].ok

\* C28: generateAudioForScenes does not reject: it returns one record per
\* scene, in scene order; the record of a scene whose synthesis failed has
\* path null and silent true, the record of any other scene has the path of
\* its audio file.
C28_OneAudioRecordPerScene == [](C28_AudioListState) /\ [][C28_AudioListStep]_vars

\* createVideo is called with an audio list that has a silent and a voiced
\* record
C28_Witness ==
  /\ hpc[1] = "video"
  /\ \E k \in 1..Len(haudio[1]) : haudio[1][k].path = NoAsset
  /\ \E k \in 1..Len(haudio[1]) : haudio[1][k].path # NoAsset

C29_ProviderState ==
  \A q \in Runs :
    LET t == tried[q]
    IN /\ Len(t) <= 2
       /\ t # <<>> => t[1].provider = (IF apiKey THEN "eleven" ELSE "google")
       /\ \A k \in 1..Len(t) : t[k].provider = "eleven" => (apiKey /\ k = 1)
       /\ Len(t) = 2 => /\ t[1] = [provider |-> "eleven", ok |-> FALSE]
                        /\ t[2].provider = "google"
       /\ hpc[q] \in {"eleven", "elevenWrite"} => apiKey
       /\ hpc[q] = "google" => ~apiKey
       /\ hpc[q] = "googleFallback" =>
            (apiKey /\ t = <<[provider |-> "eleven", ok |-> FALSE]>>)

C29_ProviderStep ==
  \A q \in Runs :
    haudio'[q] # haudio[q] =>
      /\ tried'[q] # <<>>
      /\ tried'[q][Len(tried'[q])].ok = (haudio'[q][Len(haudio'[q])].path # NoAsset)
      /\ ~tried'[q][Len(tried'[q])].ok =>
           tried'[q][Len(tried'[q])].provider = "google"
      /\ tried'[q][Len(tried'[q])].provider = "google" =>
           (~apiKey \/ tried'[q][1] = [provider |-> "eleven", ok |-> FALSE])

\* C29: generateSpeech calls ElevenLabs first and only when a key is
\* configured, calls Google TTS exactly when there is no key or the
\* ElevenLabs call failed, rejects only when Google TTS failed, and calls
\* each provider at most once.
C29_ProviderOrder == [](C29_ProviderState) /\ [][C29_ProviderStep]_vars

\* a generateSpeech call in which ElevenLabs failed and Google TTS succeeded
C29_Witness ==
  tried[1] = <<[provider |-> "eleven", ok |-> FALSE],
               [provider |-> "google", ok |-> TRUE]>>

\* C30: what createVideo reads for a request is what was generated for that
\* request: each image it has read, and each audio file whose record has a
\* path, was written by the request itself, and while createVideo runs the
\* files of the request's records are in place with the request's content.
C30_OwnAssetsConsumed ==
  \A q \in Runs :
    /\ \A k \in 1..Len(consumed[q]) :
         /\ consumed[q][k].image = q
         /\ haudio[q][k].path # NoAsset => consumed[q][k].audio = q
    /\ hpc[q] = "video" =>
         /\ \A k \in 1..Len(himages[q]) : assetFiles[himages[q][k].path] = q
         /\ \A k \in 1..Len(haudio[q]) :
              haudio[q][k].path # NoAsset => assetFiles[haudio[q][k].path] = q

\* C31: once a request has been answered, with a success or with a failure,
\* none of the image and audio files written for it is left under temp/images
\* and temp/audio.
C31_AssetsDeletedAfterAnswer ==
  \A q \in Runs :
    response[q].status # 0 => \A p \in AssetPaths : assetFiles[p] # q

\* C32: in a success response both identifiers handed to the client, the one
\* in videoUrl and metadata.videoId, name the rendered file: the stream and
\* download endpoints find output/videos/<id>.mp4 for either of them, whether
\* the video was saved to the database or not.
C32_HandedIdsNameTheFile ==
  \A q \in Runs :
    response[q].status = 200 =>
      /\ VideoFileAt(outputFiles, response[q].videoUrl).kind = "video"
      /\ VideoFileAt(outputFiles, response[q].videoId).kind = "video"

\* the handler has got its images back from generateSceneImages
ImagesReturned(q) == hpc[q] \notin {"idle", "genImage", "genFallback", "failed"}

\* C33: the list generateSceneImages builds has one record per scene, in the
\* order of the scenes, each with the scene's id and a path, and it is complete
\* when the call has returned.
C33_ImageListState ==
  \A q \in Runs :
    /\ Len(himages[q]) <= Len(hscript[q].scenes)
    /\ \A k \in 1..Len(himages[q]) :
         /\ himages[q][k].sceneId = hscript[q].scenes[k].id
         /\ himages[q][k].path # NoAsset
    /\ ImagesReturned(q) => Len(himages[q]) = Len(hscript[q].scenes)

\* C33: a failed first generation of a scene's image does not fail the call,
\* the template fallback is tried; the call fails only when the fallback
\* fails; and a step adds at most one record, at the end of the list.
C33_ImageListStep ==
  \A q \in Runs :
    /\ hpc[q] = "genImage" => hpc'[q] # "failed"
    /\ (hpc[q] = "genImage" /\ hpc'[q] = "genFallback") => himages'[q] = himages[q]
    /\ (hpc[q] \in {"genImage", "genFallback"} /\ himages'[q] # himages[q]) =>
         /\ Len(himages'[q]) = Len(himages[q]) + 1
         /\ SubSeq(himages'[q], 1, Len(himages[q])) = himages[q]

C33_OneImageRecordPerScene == [](C33_ImageListState) /\ [][C33_ImageListStep]_vars

\* generateSceneImages has returned the records of at least two scenes
C33_Witness ==
  /\ hpc[1] = "video"
  /\ Len(himages[1]) >= 2
  /\ Len(himages[1]) = Len(hscript[1].scenes)

\* the handler is past createVideo without a saved document
Unsaved(q) ==
  /\ hpc[q] \in {"cleanupImages", "cleanupAudio", "responded"}
  /\ savedVideo[q] = NoDocument

\* C35: when the video was not saved to the database, the rendered file is
\* there all the same, and the response, once sent, is a success whose
\* metadata.videoId is the videoId createVideo returned.
C35_UnsavedState ==
  \A q \in Runs :
    Unsaved(q) =>
      /\ outputFiles[hvideo[q]].kind = "video"
      /\ hpc[q] = "responded" =>
           /\ response[q].status = 200
           /\ response[q].videoId = Uuid(hvideo[q])

\* C35: no outcome of the database save, and nothing after it, takes the
\* handler to its failure response.
C35_UnsavedStep ==
  \A q \in Runs :
    hpc[q] \in {"saving", "cleanupImages", "cleanupAudio"} => hpc'[q] # "failed"

C35_SaveFailureIsNoFailure == [](C35_UnsavedState) /\ [][C35_UnsavedStep]_vars

\* a request answered with a success although nothing was saved
C35_Witness ==
  /\ hpc[1] = "responded"
  /\ savedVideo[1] = NoDocument
  /\ response[1].status = 200

\* C34: the stream endpoint answers a request without a file with 404; with a
\* file and a Range header with 206 and a range inside the file, 0 <= start <=
\* end <= fileSize - 1, of Content-Length end - start + 1; with a file and no
\* Range header with 200 and Content-Length fileSize.
C34_RangeInsideFile ==
  streamed.status # 0 =>
    LET file == VideoFileAt(outputFiles, streamed.videoId)
    IN IF file = NoFile THEN streamed.status = 404
       ELSE IF streamed.range.given
       THEN /\ streamed.status = 206
            /\ 0 <= streamed.start
            /\ streamed.start <= streamed.end
            /\ streamed.end <= FileSize(file) - 1
            /\ streamed.length = (streamed.end - streamed.start) + 1
       ELSE /\ streamed.status = 200
            /\ streamed.length = FileSize(file)

\* C36: researchTopic, analyzeContent, createScript and createScriptFromContent
\* never fail towards the handler that calls them: without a Gemini client
\* and after any failure the simulated result is returned.
C36_AiNeverFails == ai.pc # "threw"

\* the ids of the scenes are pairwise distinct
DistinctIds(scenes) ==
  \A j, k \in 1..Len(scenes) : scenes[j].id = scenes[k].id => j = k

\* C37: a script that simulateScript or simulateScriptFromContent built, for
\* any number of key points or sentences, has pairwise distinct scene ids.
C37_SimulatedIdsDistinct ==
  (ai.pc = "returned" /\ ai.simulated) => DistinctIds(ai.script.scenes)

\* simulateScript has built its longest script: five key points between the
\* title scene and the summary scene
C37_Witness ==
  /\ ai.pc = "returned"
  /\ ai.simulated
  /\ ai.route = "topic"
  /\ Len(ai.script.scenes) = SimKeyPointLimit + 2

====
